---- MODULE Spec2Model ----
(***************************************************************************)
(* A model of the aggregation engine of nps-explorer-v2:                   *)
(*   RecGovService.getTrailsByPark / parkToRecAreaId / mapTrailResponse    *)
(*   (src/mcp-worker/services/recGovService.ts), and the report tools     *)
(*   planParkVisit and getParkOverview with the weather scoring            *)
(*   (src/unnamed/part_000, src/mcp-worker/services/npsService.ts).        *)
(*                                                                         *)
(* JavaScript values are tagged records [t, n, s]; text is a sequence of   *)
(* one-character strings, so that toLowerCase, includes, parseFloat and    *)
(* toString are computed and not assumed.  Lengths are kept in tenths      *)
(* (4.5 is 45): parseFloat keeps one fractional digit.                     *)
(***************************************************************************)
EXTENDS Integers, Sequences, FiniteSets, TLC

VARIABLES
  pc,             \* getTrailsByPark: the await the call is suspended at
  parkCode,       \* getTrailsByPark: argument parkCode
  query,          \* getTrailsByPark: argument query
  resolved,       \* what parkToRecAreaId returned, once it has returned
  trails,         \* the trail candidates (local `trails`)
  detailedTrails, \* local `detailedTrails`
  outcome,        \* "none" | "returned" | "threw"
  result,         \* the Trail[] the call resolved with
  next,           \* the position in `trails` the detail loop is at
  calls,          \* every http.get issued so far: [kind, key, ok]
  areas,          \* parkToRecAreaId: the RECDATA its area search answered with
  facilityList,   \* the RECDATA the facility list answered with (`resp`)
  searchList,     \* the RECDATA the fallback search answered with (`searchResp`)
  cancelled,      \* the caller's deadline has fired while the call was running
  mapIn,          \* mapTrailResponse checked alone: its argument trail
  mapOut,         \* mapTrailResponse checked alone: what it returned or threw
  day,            \* the weather scoring checked alone: one forecast day
  scored,         \* the weather scoring checked alone: the entry pushed for day
  step,           \* a report tool: the await the handler is suspended at
  tool,           \* a report tool: "planParkVisit" | "getParkOverview"
  args,           \* a report tool: its arguments parkCode, startDate, endDate
  park,           \* local `park`
  alerts,         \* local `alerts`
  forecast,       \* local `forecast`
  detailedForecast, \* local `detailedForecast`
  events,         \* local `events`
  campgrounds,    \* local `campgrounds`
  goodWeatherDays, \* local `goodWeatherDays`, after the sort
  reply,          \* what the handler returned: a report text or a message
  fetched,        \* every service call made so far: [source, ok]
  authPc,         \* /callback: the await the handler is suspended at
  authArgs,       \* /callback: the query parameters state and code
  oauthReqInfo,   \* local `oauthReqInfo`
  upstream,       \* fetchUpstreamAuthToken: what the token endpoint answered
  tokenResult,    \* the pair fetchUpstreamAuthToken returned
  user,           \* local `user`
  authReply,      \* what the callback returned, or that it rejected
  authLog         \* the outward calls of the callback, in order

trailVars ==
  <<pc, parkCode, query, resolved, trails, detailedTrails, outcome, result, next, calls,
    areas, facilityList, searchList, cancelled>>
mapVars == <<mapIn, mapOut>>
scoreVars == <<day, scored>>
reportVars ==
  <<step, tool, args, park, alerts, forecast, detailedForecast, events, campgrounds,
    goodWeatherDays, reply, fetched>>
authVars == <<authPc, authArgs, oauthReqInfo, upstream, tokenResult, user, authReply, authLog>>
vars == <<trailVars, mapVars, scoreVars, reportVars, authVars>>

----------------------------------------------------------------------------
(* JavaScript values *)

Undef == [t |-> "undefined", n |-> 0, s |-> <<>>]
Null == [t |-> "null", n |-> 0, s |-> <<>>]
NaN == [t |-> "NaN", n |-> 0, s |-> <<>>]
Num(k) == [t |-> "number", n |-> k, s |-> <<>>]
Str(chars) == [t |-> "string", n |-> 0, s |-> chars]
\* an inherited member of Object.prototype (a function or the prototype object)
ProtoMember == [t |-> "object", n |-> 0, s |-> <<>>]

\* ToBoolean, as `if (x)`, `!x`, `x && y`, `x ? a : b` apply it
Truthy(v) ==
  CASE v.t = "undefined" -> FALSE
    [] v.t = "null" -> FALSE
    [] v.t = "NaN" -> FALSE
    [] v.t = "number" -> v.n # 0
    [] v.t = "string" -> v.s # <<>>
    [] OTHER -> TRUE

\* the members every object literal inherits from Object.prototype
ObjectPrototypeKeys ==
  {"constructor", "toString", "valueOf", "hasOwnProperty", "isPrototypeOf",
   "propertyIsEnumerable", "toLocaleString", "__proto__"}

\* table[key] on an object literal: own property, else the prototype chain
ObjLookup(table, key) ==
  IF key \in DOMAIN table THEN table[key]
  ELSE IF key \in ObjectPrototypeKeys THEN ProtoMember
  ELSE Undef

----------------------------------------------------------------------------
(* Text *)

UpperChars == <<"A", "B", "C", "D", "E", "F", "G", "H", "I", "J", "K", "L", "M",
                "N", "O", "P", "Q", "R", "S", "T", "U", "V", "W", "X", "Y", "Z">>
LowerChars == <<"a", "b", "c", "d", "e", "f", "g", "h", "i", "j", "k", "l", "m",
                "n", "o", "p", "q", "r", "s", "t", "u", "v", "w", "x", "y", "z">>
DigitChars == <<"0", "1", "2", "3", "4", "5", "6", "7", "8", "9">>

\* the lower-case letter of every upper-case letter
LowerOf ==
  [c \in {UpperChars[i] : i \in DOMAIN UpperChars} |->
     LowerChars[CHOOSE i \in DOMAIN UpperChars : UpperChars[i] = c]]

LowerChar(c) == IF c \in DOMAIN LowerOf THEN LowerOf[c] ELSE c

\* String.prototype.toLowerCase
toLowerCase(chars) == [i \in DOMAIN chars |-> LowerChar(chars[i])]

\* String.prototype.includes
includes(chars, sub) ==
  \E text \in {chars \o <<>>} :
     \E i \in 0..(Len(text) - Len(sub)) : SubSeq(text, i + 1, i + Len(sub)) = sub

IsDigit(c) == \E i \in DOMAIN DigitChars : DigitChars[i] = c
DigitVal(c) == (CHOOSE i \in DOMAIN DigitChars : DigitChars[i] = c) - 1

RECURSIVE DigitRun(_, _)
\* how many digits chars holds from position i on
DigitRun(chars, i) ==
  IF i <= Len(chars) /\ IsDigit(chars[i]) THEN 1 + DigitRun(chars, i + 1) ELSE 0

RECURSIVE DigitsValue(_, _, _)
\* the value of the n digits of chars that start at position i
DigitsValue(chars, i, n) ==
  IF n = 0 THEN 0
  ELSE DigitsValue(chars, i, n - 1) * 10 + DigitVal(chars[i + n - 1])

RECURSIVE SkipSpaces(_, _)
SkipSpaces(chars, i) ==
  IF i <= Len(chars) /\ chars[i] = " " THEN SkipSpaces(chars, i + 1) ELSE i

\* parseFloat: leading blanks, a sign, digits, a fraction; the longest numeric
\* prefix decides, and text with no digit at its head is NaN.  In tenths.
parseFloat(chars) ==
  LET b == SkipSpaces(chars, 1)
      neg == b <= Len(chars) /\ chars[b] = "-"
      signed == b <= Len(chars) /\ chars[b] \in {"-", "+"}
      i == IF signed THEN b + 1 ELSE b
      ni == DigitRun(chars, i)
      dot == i + ni <= Len(chars) /\ chars[i + ni] = "."
      nf == IF dot THEN DigitRun(chars, i + ni + 1) ELSE 0
      whole == DigitsValue(chars, i, ni)
      tenth == IF nf > 0 THEN DigitVal(chars[i + ni + 1]) ELSE 0
      mag == whole * 10 + tenth
  IN IF ni + nf = 0 THEN NaN ELSE Num(IF neg THEN 0 - mag ELSE mag)

RECURSIVE NumToStr(_)
\* Number.prototype.toString of a non-negative integer
NumToStr(k) ==
  IF k < 10 THEN <<DigitChars[k + 1]>>
  ELSE Append(NumToStr(k \div 10), DigitChars[(k % 10) + 1])

----------------------------------------------------------------------------
(* The static tables *)

\* parkToRecAreaId: knownMappings
knownMappings ==
  ("yose" :> Num(2991)) @@
  ("grca" :> Num(2733)) @@
  ("zion" :> Num(3042)) @@
  ("yell" :> Num(3039)) @@
  ("glac" :> Num(2725)) @@
  ("romo" :> Num(2959)) @@
  ("seki" :> Num(2979)) @@
  ("olym" :> Num(2918)) @@
  ("acad" :> Num(2674)) @@
  ("grsm" :> Num(2734))

\* getParkNameFromCode: parkMap
parkMap ==
  ("yose" :> Str(<<"Y", "o", "s", "e", "m", "i", "t", "e">>)) @@
  ("grca" :> Str(<<"G", "r", "a", "n", "d", " ", "C", "a", "n", "y", "o", "n">>)) @@
  ("zion" :> Str(<<"Z", "i", "o", "n">>)) @@
  ("yell" :> Str(<<"Y", "e", "l", "l", "o", "w", "s", "t", "o", "n", "e">>)) @@
  ("glac" :> Str(<<"G", "l", "a", "c", "i", "e", "r">>)) @@
  ("romo" :> Str(<<"R", "o", "c", "k", "y", " ", "M", "o", "u", "n", "t", "a", "i", "n">>)) @@
  ("seki" :> Str(<<"S", "e", "q", "u", "o", "i", "a", " ", "K", "i", "n", "g", "s", " ", "C", "a", "n", "y", "o", "n">>)) @@
  ("olym" :> Str(<<"O", "l", "y", "m", "p", "i", "c">>)) @@
  ("acad" :> Str(<<"A", "c", "a", "d", "i", "a">>)) @@
  ("grsm" :> Str(<<"G", "r", "e", "a", "t", " ", "S", "m", "o", "k", "y", " ", "M", "o", "u", "n", "t", "a", "i", "n", "s">>)) @@
  ("dena" :> Str(<<"D", "e", "n", "a", "l", "i">>)) @@
  ("jotr" :> Str(<<"J", "o", "s", "h", "u", "a", " ", "T", "r", "e", "e">>)) @@
  ("arch" :> Str(<<"A", "r", "c", "h", "e", "s">>)) @@
  ("brca" :> Str(<<"B", "r", "y", "c", "e", " ", "C", "a", "n", "y", "o", "n">>)) @@
  ("cany" :> Str(<<"C", "a", "n", "y", "o", "n", "l", "a", "n", "d", "s">>)) @@
  ("care" :> Str(<<"C", "a", "p", "i", "t", "o", "l", " ", "R", "e", "e", "f">>)) @@
  ("cave" :> Str(<<"C", "a", "r", "l", "s", "b", "a", "d", " ", "C", "a", "v", "e", "r", "n", "s">>)) @@
  ("chis" :> Str(<<"C", "h", "a", "n", "n", "e", "l", " ", "I", "s", "l", "a", "n", "d", "s">>)) @@
  ("crla" :> Str(<<"C", "r", "a", "t", "e", "r", " ", "L", "a", "k", "e">>)) @@
  ("depo" :> Str(<<"D", "e", "a", "t", "h", " ", "V", "a", "l", "l", "e", "y">>)) @@
  ("ever" :> Str(<<"E", "v", "e", "r", "g", "l", "a", "d", "e", "s">>)) @@
  ("gumo" :> Str(<<"G", "u", "a", "d", "a", "l", "u", "p", "e", " ", "M", "o", "u", "n", "t", "a", "i", "n", "s">>)) @@
  ("havo" :> Str(<<"H", "a", "w", "a", "i", "i", " ", "V", "o", "l", "c", "a", "n", "o", "e", "s">>)) @@
  ("hosp" :> Str(<<"H", "o", "t", " ", "S", "p", "r", "i", "n", "g", "s">>)) @@
  ("isro" :> Str(<<"I", "s", "l", "e", " ", "R", "o", "y", "a", "l", "e">>)) @@
  ("kefj" :> Str(<<"K", "e", "n", "a", "i", " ", "F", "j", "o", "r", "d", "s">>)) @@
  ("lavo" :> Str(<<"L", "a", "s", "s", "e", "n", " ", "V", "o", "l", "c", "a", "n", "i", "c">>)) @@
  ("maca" :> Str(<<"M", "a", "m", "m", "o", "t", "h", " ", "C", "a", "v", "e">>)) @@
  ("meve" :> Str(<<"M", "e", "s", "a", " ", "V", "e", "r", "d", "e">>)) @@
  ("mora" :> Str(<<"M", "o", "u", "n", "t", " ", "R", "a", "i", "n", "i", "e", "r">>)) @@
  ("noca" :> Str(<<"N", "o", "r", "t", "h", " ", "C", "a", "s", "c", "a", "d", "e", "s">>)) @@
  ("pefo" :> Str(<<"P", "e", "t", "r", "i", "f", "i", "e", "d", " ", "F", "o", "r", "e", "s", "t">>)) @@
  ("redw" :> Str(<<"R", "e", "d", "w", "o", "o", "d">>)) @@
  ("sagu" :> Str(<<"S", "a", "g", "u", "a", "r", "o">>)) @@
  ("shen" :> Str(<<"S", "h", "e", "n", "a", "n", "d", "o", "a", "h">>)) @@
  ("thro" :> Str(<<"T", "h", "e", "o", "d", "o", "r", "e", " ", "R", "o", "o", "s", "e", "v", "e", "l", "t">>)) @@
  ("voya" :> Str(<<"V", "o", "y", "a", "g", "e", "u", "r", "s">>)) @@
  ("wica" :> Str(<<"W", "i", "n", "d", " ", "C", "a", "v", "e">>)) @@
  ("wrst" :> Str(<<"W", "r", "a", "n", "g", "e", "l", "l", " ", "S", "t", " ", "E", "l", "i", "a", "s">>))


----------------------------------------------------------------------------
(* Bounds and the upstream's data *)

\* the longest facility list (and fallback search result) the upstream answers with
MaxFacilities == 3
\* the longest area-search result the upstream answers with
MaxAreas == 2

\* the park codes a caller passes: a code of both tables, a code of the name
\* table only, a code of neither table, and a code that names an inherited member
ParkCodes == {"acad", "arch", "xxxx", "constructor"}

\* an attribute pair of a facility's detail record
Attr(name, key, value) ==
  [AttributeName |-> name, AttributeKey |-> key, AttributeValue |-> value]

\* trail.Attributes: undefined, an array of pairs, or an object holding one
NoAttributes == [shape |-> "absent", list |-> <<>>]
FlatAttributes(list) == [shape |-> "flat", list |-> list]
NestedAttributes(list) == [shape |-> "nested", list |-> list]

TrailLength == <<"T", "r", "a", "i", "l", " ", "L", "e", "n", "g", "t", "h">>
TrailDifficulty == <<"T", "r", "a", "i", "l", " ", "D", "i", "f", "f", "i", "c", "u", "l", "t", "y">>
ElevationGain == <<"E", "l", "e", "v", "a", "t", "i", "o", "n", " ", "G", "a", "i", "n">>
TrailSurface == <<"T", "r", "a", "i", "l", " ", "S", "u", "r", "f", "a", "c", "e">>
TrailType == <<"T", "r", "a", "i", "l", " ", "T", "y", "p", "e">>

\* the upstream's facilities, in the order its lists give them; ATTRIBUTES is
\* what the facility's detail record holds
FacilityPool ==
  << [FacilityID |-> 30, FacilityName |-> Str(<<"M", "i", "s", "t", " ", "T", "r", "a", "i", "l">>),
      FacilityTypeDescription |-> Str(<<"F", "a", "c", "i", "l", "i", "t", "y">>),
      ATTRIBUTES |-> FlatAttributes(<<
        Attr(Str(TrailLength), Undef, Str(<<"4", ".", "5">>)),
        Attr(Str(TrailDifficulty), Undef, Str(<<"E", "a", "s", "y">>)),
        Attr(Str(TrailSurface), Undef, Str(<<"D", "i", "r", "t">>)) >>)],
     [FacilityID |-> 10, FacilityName |-> Str(<<"C", "a", "m", "p", " ", "4">>),
      FacilityTypeDescription |-> Str(<<"T", "r", "a", "i", "l">>),
      ATTRIBUTES |-> FlatAttributes(<<
        Attr(Undef, Str(TrailLength), Str(<<"6">>)),
        Attr(Undef, Str(TrailDifficulty), Str(<<"H", "a", "r", "d">>)) >>)],
     [FacilityID |-> 20, FacilityName |-> Str(<<"L", "o", "d", "g", "e">>),
      FacilityTypeDescription |-> Str(<<"C", "a", "m", "p", "g", "r", "o", "u", "n", "d">>),
      ATTRIBUTES |-> NoAttributes],
     [FacilityID |-> 40, FacilityName |-> Str(<<"O", "L", "D", " ", "T", "R", "A", "I", "L">>),
      FacilityTypeDescription |-> Undef,
      ATTRIBUTES |-> NestedAttributes(<<
        Attr(Str(TrailLength), Undef, Str(<<"2">>)),
        Attr(Str(TrailDifficulty), Undef, Str(<<"M", "o", "d", "e", "r", "a", "t", "e">>)) >>)],
     [FacilityID |-> 50, FacilityName |-> Str(<<"R", "i", "m", " ", "t", "r", "a", "i", "l">>),
      FacilityTypeDescription |-> Str(<<"H", "i", "k", "i", "n", "g", " ", "T", "r", "a", "i", "l">>),
      ATTRIBUTES |-> NoAttributes],
     [FacilityID |-> 60, FacilityName |-> Str(<<"V", "i", "s", "t", "a">>),
      FacilityTypeDescription |-> Str(<<"t", "r", "a", "i", "l">>),
      ATTRIBUTES |-> NoAttributes] >>

\* the upstream's recreation areas for the query "Arches"
AreaPool ==
  << [RecAreaName |-> <<"M", "o", "a", "b">>, RecAreaID |-> 1],
     [RecAreaName |-> <<"C", "a", "n", "y", "o", "n">>, RecAreaID |-> 5],
     [RecAreaName |-> <<"T", "h", "e", " ", "A", "r", "c", "h", "e", "s">>, RecAreaID |-> 2],
     [RecAreaName |-> <<"A", "R", "C", "H", "E", "S", " ", "N", "A", "T", "I", "O", "N", "A", "L", " ", "P", "A", "R", "K">>, RecAreaID |-> 3],
     [RecAreaName |-> <<"a", "r", "c", "h", "e", "s">>, RecAreaID |-> 4] >>

RECURSIVE Pick(_, _, _)
\* the members of pool at the positions S, in pool's order
Pick(pool, S, i) ==
  IF i > Len(pool) THEN <<>>
  ELSE IF i \in S THEN <<pool[i]>> \o Pick(pool, S, i + 1)
  ELSE Pick(pool, S, i + 1)

\* every list of at most max members of pool
ListsOf(pool, max) ==
  {Pick(pool, S, 1) : S \in {T \in SUBSET DOMAIN pool : Cardinality(T) <= max}}

\* a facility as a list (or search) response carries it: the base fields only
BaseFacility(f) ==
  [FacilityID |-> f.FacilityID, FacilityName |-> f.FacilityName,
   FacilityTypeDescription |-> f.FacilityTypeDescription,
   Attributes |-> NoAttributes]

BaseList(list) == [i \in DOMAIN list |-> BaseFacility(list[i])]

\* what http.get does: it throws, or resolves with a body that may lack RECDATA
Failed == [ok |-> FALSE, hasData |-> FALSE, RECDATA |-> <<>>]
NoRecdata == [ok |-> TRUE, hasData |-> FALSE, RECDATA |-> <<>>]
Body(data) == [ok |-> TRUE, hasData |-> TRUE, RECDATA |-> data]

AreaResponses ==
  {Failed, NoRecdata} \cup {Body(l) : l \in ListsOf(AreaPool, MaxAreas)}

FacilityResponses ==
  {Failed, NoRecdata} \cup {Body(BaseList(l)) : l \in ListsOf(FacilityPool, MaxFacilities)}

\* the detail record of facility id: RECDATA is an object with ATTRIBUTES
DetailOf(id) ==
  LET i == CHOOSE j \in DOMAIN FacilityPool : FacilityPool[j].FacilityID = id
  IN FacilityPool[i].ATTRIBUTES

DetailResponses(id) ==
  { [ok |-> FALSE, hasData |-> FALSE, ATTRIBUTES |-> NoAttributes],
    [ok |-> TRUE, hasData |-> FALSE, ATTRIBUTES |-> NoAttributes],
    [ok |-> TRUE, hasData |-> TRUE, ATTRIBUTES |-> DetailOf(id)] }

\* the query argument; given is FALSE when the caller passes none
Query(id, difficulty, min, max) ==
  [given |-> TRUE, trailId |-> id, difficulty |-> difficulty,
   minLength |-> min, maxLength |-> max]
NoQuery ==
  [given |-> FALSE, trailId |-> Undef, difficulty |-> Undef,
   minLength |-> Undef, maxLength |-> Undef]

Queries ==
  { NoQuery,
    Query(Str(<<"3", "0">>), Undef, Undef, Undef),
    Query(Undef, Str(<<"e", "a", "s">>), Undef, Undef),
    Query(Undef, Str(<<"H", "A", "R", "D">>), Undef, Undef),
    Query(Undef, Undef, Num(0), Undef),
    Query(Undef, Undef, Num(30), Undef),
    Query(Undef, Undef, Undef, Num(50)),
    Query(Undef, Undef, Num(20), Num(60)) }


----------------------------------------------------------------------------
(* RecGovService.parkToRecAreaId and getParkNameFromCode *)

\* getParkNameFromCode: the mapped name, or null
getParkNameFromCode(code) ==
  LET name == ObjLookup(parkMap, code)
  IN IF Truthy(name) THEN name ELSE Null

\* the least member of a non-empty set of positions: Array.prototype.find's hit
First(S) == CHOOSE i \in S : \A j \in S : i <= j

\* ResolveStatic with the static code-to-id table left out
ResolveStaticNoTable(code) ==
  IF ~Truthy(getParkNameFromCode(code)) THEN [done |-> TRUE, value |-> Null]
  ELSE [done |-> FALSE, value |-> Undef]

\* parkToRecAreaId up to its first await: the static table, then the name table.
\* done is FALSE when the search request is to be issued.
ResolveStatic(code) ==
  LET known == ObjLookup(knownMappings, code)
  IN IF Truthy(known) THEN [done |-> TRUE, value |-> known]
     ELSE IF ~Truthy(getParkNameFromCode(code)) THEN [done |-> TRUE, value |-> Null]
     ELSE [done |-> FALSE, value |-> Undef]

\* BestMatch with the equality test tried over the whole result before the
\* "national park" test
BestMatchEqualityFirst(RECDATA, parkName) ==
  LET lname == toLowerCase(parkName)
      equal == {i \in DOMAIN RECDATA : toLowerCase(RECDATA[i].RecAreaName) = lname}
      national == {i \in DOMAIN RECDATA :
                     includes(toLowerCase(RECDATA[i].RecAreaName),
                              lname \o <<" ", "n", "a", "t", "i", "o", "n", "a", "l", " ", "p", "a", "r", "k">>)}
      partial == {i \in DOMAIN RECDATA :
                    includes(toLowerCase(RECDATA[i].RecAreaName), lname)}
  IN IF equal # {} THEN First(equal)
     ELSE IF national # {} THEN First(national)
     ELSE IF partial # {} THEN First(partial)
     ELSE IF Len(RECDATA) > 0 THEN 1
     ELSE 0

\* BestMatch without the last resort of the first result
BestMatchNoLastResort(RECDATA, parkName) ==
  LET lname == toLowerCase(parkName)
      exact == {i \in DOMAIN RECDATA :
                  \/ toLowerCase(RECDATA[i].RecAreaName) = lname
                  \/ includes(toLowerCase(RECDATA[i].RecAreaName),
                              lname \o <<" ", "n", "a", "t", "i", "o", "n", "a", "l", " ", "p", "a", "r", "k">>)}
      partial == {i \in DOMAIN RECDATA :
                    includes(toLowerCase(RECDATA[i].RecAreaName), lname)}
  IN IF exact # {} THEN First(exact)
     ELSE IF partial # {} THEN First(partial)
     ELSE 0

\* `let bestMatch = ...`: the position of the chosen area, 0 for none
BestMatch(RECDATA, parkName) ==
  LET lname == toLowerCase(parkName)
      exact == {i \in DOMAIN RECDATA :
                  \/ toLowerCase(RECDATA[i].RecAreaName) = lname
                  \/ includes(toLowerCase(RECDATA[i].RecAreaName),
                              lname \o <<" ", "n", "a", "t", "i", "o", "n", "a", "l", " ", "p", "a", "r", "k">>)}
      partial == {i \in DOMAIN RECDATA :
                    includes(toLowerCase(RECDATA[i].RecAreaName), lname)}
  IN IF exact # {} THEN First(exact)
     ELSE IF partial # {} THEN First(partial)
     ELSE IF Len(RECDATA) > 0 THEN 1
     ELSE 0

\* parkToRecAreaId from the search's answer on: a thrown request is caught and
\* answered with null, like an empty result
ResolveSearch(resp, code) ==
  LET parkName == getParkNameFromCode(code).s
      best == BestMatch(resp.RECDATA, parkName)
  IN IF ~resp.ok THEN Null
     ELSE IF ~resp.hasData \/ Len(resp.RECDATA) = 0 THEN Null
     ELSE IF best # 0 THEN Num(resp.RECDATA[best].RecAreaID)
     ELSE Null

----------------------------------------------------------------------------
(* RecGovService.getAttributeValue and mapTrailResponse *)

\* the method getAttributeValue: a flat array or an object holding ATTRIBUTES,
\* matched on AttributeName or AttributeKey
getAttributeValue(facility, attributeName) ==
  LET list == facility.Attributes.list
      hits == {i \in DOMAIN list :
                 \/ list[i].AttributeName = Str(attributeName)
                 \/ list[i].AttributeKey = Str(attributeName)}
  IN IF facility.Attributes.shape = "absent" THEN Undef
     ELSE IF hits # {} THEN list[First(hits)].AttributeValue
     ELSE Undef

\* mapTrailResponse's own getAttributeValue: trail.Attributes?.find(...) on
\* AttributeName only
mapGetAttributeValue(trail, name) ==
  LET list == trail.Attributes.list
      hits == {i \in DOMAIN list : list[i].AttributeName = Str(name)}
  IN IF trail.Attributes.shape = "absent" THEN Undef
     ELSE IF hits # {} THEN list[First(hits)].AttributeValue
     ELSE Undef

\* trail.Attributes?.find is not a function when Attributes is an object that
\* is no array: mapTrailResponse throws a TypeError
mapTrailThrows(trail) == trail.Attributes.shape = "nested"

\* `x ? parseFloat(x) : undefined`
ParseOptional(v) == IF Truthy(v) THEN parseFloat(v.s) ELSE Undef

\* the identifier table of lines 320-361, in the order the code lists it; the
\* names are, in the same order, those the name-keyed flags of lines 277-316
\* test
activityIdMap ==
  <<[id |-> <<"0", "9", "D", "F", "0", "9", "5", "0", "-", "D", "3", "1", "9", "-", "4", "5", "5", "7", "-", "A", "5", "7", "E", "-", "0", "4", "C", "D", "2", "F", "6", "3", "F", "F", "4", "2">>,
     name |-> <<"A", "r", "t", "s", " ", "a", "n", "d", " ", "C", "u", "l", "t", "u", "r", "e">>],
    [id |-> <<"1", "3", "A", "5", "7", "7", "0", "3", "-", "B", "B", "1", "A", "-", "4", "1", "A", "2", "-", "9", "4", "B", "8", "-", "5", "3", "B", "6", "9", "2", "E", "B", "7", "2", "3", "8">>,
     name |-> <<"A", "s", "t", "r", "o", "n", "o", "m", "y">>],
    [id |-> <<"5", "F", "7", "2", "3", "B", "A", "D", "-", "7", "3", "5", "9", "-", "4", "8", "F", "C", "-", "9", "8", "F", "A", "-", "6", "3", "1", "5", "9", "2", "2", "5", "6", "E", "3", "5">>,
     name |-> <<"A", "u", "t", "o", " ", "a", "n", "d", " ", "A", "T", "V">>],
    [id |-> <<"7", "C", "E", "6", "E", "9", "3", "5", "-", "F", "8", "3", "9", "-", "4", "F", "E", "C", "-", "A", "6", "3", "E", "-", "0", "5", "2", "B", "1", "D", "E", "F", "3", "9", "D", "2">>,
     name |-> <<"B", "i", "k", "i", "n", "g">>],
    [id |-> <<"0", "7", "1", "B", "A", "7", "3", "C", "-", "1", "D", "3", "C", "-", "4", "6", "D", "4", "-", "A", "5", "3", "C", "-", "0", "0", "D", "5", "6", "0", "2", "F", "7", "F", "0", "E">>,
     name |-> <<"B", "o", "a", "t", "i", "n", "g">>],
    [id |-> <<"A", "5", "9", "9", "4", "7", "B", "7", "-", "3", "3", "7", "6", "-", "4", "9", "B", "4", "-", "A", "D", "0", "2", "-", "C", "0", "4", "2", "3", "E", "0", "8", "C", "5", "F", "7">>,
     name |-> <<"C", "a", "m", "p", "i", "n", "g">>],
    [id |-> <<"0", "7", "C", "B", "C", "A", "6", "A", "-", "4", "6", "B", "8", "-", "4", "1", "3", "F", "-", "8", "B", "6", "C", "-", "A", "B", "E", "D", "E", "B", "F", "9", "8", "5", "3", "E">>,
     name |-> <<"C", "a", "n", "y", "o", "n", "e", "e", "r", "i", "n", "g">>],
    [id |-> <<"B", "A", "3", "1", "6", "D", "0", "F", "-", "9", "2", "A", "E", "-", "4", "E", "0", "0", "-", "8", "C", "8", "0", "-", "D", "B", "D", "6", "0", "5", "D", "C", "5", "8", "C", "3">>,
     name |-> <<"C", "a", "v", "i", "n", "g">>],
    [id |-> <<"B", "1", "2", "F", "A", "A", "B", "9", "-", "7", "1", "3", "F", "-", "4", "B", "3", "8", "-", "8", "3", "E", "4", "-", "A", "2", "7", "3", "F", "5", "A", "4", "3", "C", "7", "7">>,
     name |-> <<"C", "l", "i", "m", "b", "i", "n", "g">>],
    [id |-> <<"C", "1", "1", "D", "3", "7", "4", "6", "-", "5", "0", "6", "3", "-", "4", "B", "D", "0", "-", "B", "2", "4", "5", "-", "7", "1", "7", "8", "D", "1", "A", "D", "8", "6", "6", "C">>,
     name |-> <<"C", "o", "m", "p", "a", "s", "s", " ", "a", "n", "d", " ", "G", "P", "S">>],
    [id |-> <<"8", "C", "4", "9", "5", "0", "6", "7", "-", "8", "E", "9", "4", "-", "4", "D", "7", "8", "-", "B", "B", "D", "4", "-", "3", "3", "7", "9", "D", "A", "C", "F", "6", "5", "5", "0">>,
     name |-> <<"D", "o", "g", " ", "S", "l", "e", "d", "d", "i", "n", "g">>],
    [id |-> <<"A", "E", "4", "2", "B", "4", "6", "C", "-", "E", "4", "B", "7", "-", "4", "8", "8", "9", "-", "A", "1", "2", "2", "-", "0", "8", "F", "E", "1", "8", "0", "3", "7", "1", "A", "E">>,
     name |-> <<"F", "i", "s", "h", "i", "n", "g">>],
    [id |-> <<"D", "7", "2", "2", "0", "6", "E", "4", "-", "6", "C", "D", "1", "-", "4", "4", "4", "1", "-", "A", "3", "5", "5", "-", "F", "8", "F", "1", "8", "2", "7", "4", "6", "6", "B", "1">>,
     name |-> <<"F", "l", "y", "i", "n", "g">>],
    [id |-> <<"1", "D", "F", "A", "C", "D", "9", "7", "-", "1", "B", "9", "C", "-", "4", "F", "5", "A", "-", "8", "0", "F", "2", "-", "0", "5", "5", "9", "3", "6", "0", "4", "7", "9", "9", "E">>,
     name |-> <<"F", "o", "o", "d">>],
    [id |-> <<"3", "F", "3", "A", "B", "D", "1", "6", "-", "2", "C", "5", "2", "-", "4", "E", "A", "A", "-", "A", "1", "F", "6", "-", "4", "2", "3", "5", "D", "E", "5", "6", "8", "6", "F", "0">>,
     name |-> <<"G", "o", "l", "f">>],
    [id |-> <<"B", "3", "3", "D", "C", "9", "B", "6", "-", "0", "B", "7", "D", "-", "4", "3", "2", "2", "-", "B", "A", "D", "7", "-", "A", "1", "3", "A", "3", "4", "C", "5", "8", "4", "A", "3">>,
     name |-> <<"G", "u", "i", "d", "e", "d", " ", "T", "o", "u", "r", "s">>],
    [id |-> <<"4", "2", "F", "D", "7", "8", "B", "9", "-", "2", "B", "9", "0", "-", "4", "A", "A", "9", "-", "B", "C", "4", "3", "-", "F", "1", "0", "E", "9", "F", "E", "A", "8", "B", "5", "A">>,
     name |-> <<"H", "a", "n", "d", "s", "-", "O", "n">>],
    [id |-> <<"B", "F", "F", "8", "C", "0", "2", "7", "-", "7", "C", "8", "F", "-", "4", "8", "0", "B", "-", "A", "5", "F", "8", "-", "C", "D", "8", "C", "E", "4", "9", "0", "B", "F", "B", "A">>,
     name |-> <<"H", "i", "k", "i", "n", "g">>],
    [id |-> <<"0", "3", "0", "7", "9", "5", "5", "A", "-", "B", "6", "5", "C", "-", "4", "C", "E", "4", "-", "A", "7", "8", "0", "-", "E", "B", "3", "6", "B", "A", "A", "A", "D", "F", "0", "B">>,
     name |-> <<"H", "o", "r", "s", "e", " ", "T", "r", "e", "k", "k", "i", "n", "g">>],
    [id |-> <<"8", "3", "8", "6", "E", "E", "A", "F", "-", "9", "8", "5", "F", "-", "4", "D", "E", "8", "-", "9", "0", "3", "7", "-", "C", "C", "F", "9", "1", "9", "7", "5", "A", "C", "9", "4">>,
     name |-> <<"H", "u", "n", "t", "i", "n", "g", " ", "a", "n", "d", " ", "G", "a", "t", "h", "e", "r", "i", "n", "g">>],
    [id |-> <<"5", "F", "F", "5", "B", "2", "8", "6", "-", "E", "9", "C", "3", "-", "4", "3", "0", "E", "-", "B", "6", "1", "2", "-", "3", "3", "8", "0", "D", "8", "1", "3", "8", "6", "0", "0">>,
     name |-> <<"I", "c", "e", " ", "S", "k", "a", "t", "i", "n", "g">>],
    [id |-> <<"D", "F", "4", "A", "3", "5", "E", "0", "-", "7", "9", "8", "3", "-", "4", "A", "3", "E", "-", "B", "C", "4", "7", "-", "F", "3", "7", "B", "8", "7", "2", "B", "0", "F", "2", "5">>,
     name |-> <<"J", "u", "n", "i", "o", "r", " ", "R", "a", "n", "g", "e", "r", " ", "P", "r", "o", "g", "r", "a", "m">>],
    [id |-> <<"B", "2", "0", "4", "D", "E", "6", "0", "-", "5", "A", "2", "4", "-", "4", "3", "D", "D", "-", "8", "9", "0", "2", "-", "C", "8", "1", "6", "2", "5", "A", "0", "9", "A", "7", "4">>,
     name |-> <<"L", "i", "v", "i", "n", "g", " ", "H", "i", "s", "t", "o", "r", "y">>],
    [id |-> <<"C", "8", "F", "9", "8", "B", "2", "8", "-", "3", "C", "1", "0", "-", "4", "1", "A", "E", "-", "A", "A", "9", "9", "-", "0", "9", "2", "B", "3", "B", "3", "9", "8", "C", "4", "3">>,
     name |-> <<"M", "u", "s", "e", "u", "m", " ", "E", "x", "h", "i", "b", "i", "t", "s">>],
    [id |-> <<"4", "D", "2", "2", "4", "B", "C", "A", "-", "C", "1", "2", "7", "-", "4", "0", "8", "B", "-", "A", "C", "7", "5", "-", "A", "5", "1", "5", "6", "3", "C", "4", "2", "4", "1", "1">>,
     name |-> <<"P", "a", "d", "d", "l", "i", "n", "g">>],
    [id |-> <<"0", "C", "0", "D", "1", "4", "2", "F", "-", "0", "6", "B", "5", "-", "4", "B", "E", "1", "-", "8", "B", "4", "4", "-", "4", "9", "1", "B", "9", "0", "F", "9", "3", "D", "E", "B">>,
     name |-> <<"P", "a", "r", "k", " ", "F", "i", "l", "m">>],
    [id |-> <<"7", "7", "7", "9", "2", "4", "1", "F", "-", "A", "7", "0", "B", "-", "4", "9", "B", "C", "-", "8", "6", "F", "0", "-", "8", "2", "9", "A", "E", "3", "3", "2", "C", "7", "0", "8">>,
     name |-> <<"P", "l", "a", "y", "g", "r", "o", "u", "n", "d">>],
    [id |-> <<"4", "2", "C", "F", "4", "0", "2", "1", "-", "8", "5", "2", "4", "-", "4", "2", "8", "E", "-", "8", "6", "6", "A", "-", "D", "3", "3", "0", "9", "7", "A", "4", "A", "7", "6", "4">>,
     name |-> <<"S", "C", "U", "B", "A", " ", "D", "i", "v", "i", "n", "g">>],
    [id |-> <<"2", "4", "3", "8", "0", "E", "3", "F", "-", "A", "D", "9", "D", "-", "4", "E", "3", "8", "-", "B", "F", "1", "3", "-", "C", "8", "E", "E", "B", "2", "1", "8", "9", "3", "E", "7">>,
     name |-> <<"S", "h", "o", "p", "p", "i", "n", "g">>],
    [id |-> <<"F", "9", "B", "1", "D", "4", "3", "3", "-", "6", "B", "8", "6", "-", "4", "8", "0", "4", "-", "A", "E", "D", "7", "-", "B", "5", "0", "A", "5", "1", "9", "A", "3", "B", "7", "C">>,
     name |-> <<"S", "k", "i", "i", "n", "g">>],
    [id |-> <<"3", "E", "B", "F", "7", "E", "A", "C", "-", "6", "8", "F", "C", "-", "4", "7", "5", "4", "-", "B", "6", "A", "4", "-", "0", "C", "3", "8", "A", "1", "5", "8", "3", "D", "4", "5">>,
     name |-> <<"S", "n", "o", "r", "k", "e", "l", "i", "n", "g">>],
    [id |-> <<"C", "3", "8", "B", "3", "C", "6", "2", "-", "1", "B", "B", "F", "-", "4", "E", "A", "1", "-", "A", "1", "A", "2", "-", "3", "5", "D", "E", "2", "1", "B", "7", "4", "C", "1", "7">>,
     name |-> <<"S", "n", "o", "w", " ", "P", "l", "a", "y">>],
    [id |-> <<"7", "C", "9", "1", "2", "B", "8", "3", "-", "1", "B", "1", "B", "-", "4", "8", "0", "7", "-", "9", "B", "6", "6", "-", "9", "7", "C", "1", "2", "2", "1", "1", "E", "4", "8", "E">>,
     name |-> <<"S", "n", "o", "w", "m", "o", "b", "i", "l", "i", "n", "g">>],
    [id |-> <<"0", "1", "D", "7", "1", "7", "B", "C", "-", "1", "8", "B", "B", "-", "4", "F", "E", "4", "-", "9", "5", "B", "A", "-", "6", "B", "1", "3", "A", "D", "7", "0", "2", "0", "3", "8">>,
     name |-> <<"S", "n", "o", "w", "s", "h", "o", "e", "i", "n", "g">>],
    [id |-> <<"A", "E", "3", "C", "9", "5", "F", "5", "-", "E", "0", "5", "B", "-", "4", "A", "2", "8", "-", "8", "1", "D", "D", "-", "1", "C", "5", "F", "D", "4", "B", "E", "8", "8", "E", "2">>,
     name |-> <<"S", "u", "r", "f", "i", "n", "g">>],
    [id |-> <<"5", "8", "7", "B", "B", "2", "D", "3", "-", "E", "C", "3", "5", "-", "4", "1", "B", "2", "-", "B", "3", "F", "7", "-", "A", "3", "9", "E", "2", "B", "0", "8", "8", "A", "E", "E">>,
     name |-> <<"S", "w", "i", "m", "m", "i", "n", "g">>],
    [id |-> <<"9", "4", "3", "6", "9", "B", "F", "D", "-", "F", "1", "8", "6", "-", "4", "7", "7", "E", "-", "8", "7", "1", "3", "-", "A", "E", "2", "A", "7", "4", "5", "1", "5", "4", "D", "A">>,
     name |-> <<"T", "e", "a", "m", " ", "S", "p", "o", "r", "t", "s">>],
    [id |-> <<"4", "D", "0", "6", "C", "E", "E", "D", "-", "9", "0", "C", "6", "-", "4", "B", "6", "9", "-", "B", "2", "6", "4", "-", "3", "2", "C", "C", "9", "0", "B", "6", "9", "B", "A", "6">>,
     name |-> <<"T", "u", "b", "i", "n", "g">>],
    [id |-> <<"8", "A", "1", "C", "7", "B", "1", "7", "-", "C", "2", "C", "6", "-", "4", "F", "7", "C", "-", "9", "5", "3", "9", "-", "E", "A", "1", "E", "1", "9", "9", "7", "1", "D", "8", "0">>,
     name |-> <<"W", "a", "t", "e", "r", " ", "S", "k", "i", "i", "n", "g">>],
    [id |-> <<"0", "B", "6", "8", "5", "6", "8", "8", "-", "3", "4", "0", "5", "-", "4", "E", "2", "A", "-", "A", "B", "B", "A", "-", "E", "3", "0", "6", "9", "4", "9", "2", "E", "C", "5", "0">>,
     name |-> <<"W", "i", "l", "d", "l", "i", "f", "e", " ", "W", "a", "t", "c", "h", "i", "n", "g">>]>>

\* activityIdMap[id] on the object literal: own property, else the prototype
\* chain
activityIdLookup(id) ==
  LET hits == {i \in DOMAIN activityIdMap : activityIdMap[i].id = id}
  IN IF hits # {} THEN Str(activityIdMap[First(hits)].name)
     ELSE IF id \in {<<"c", "o", "n", "s", "t", "r", "u", "c", "t", "o", "r">>, <<"t", "o", "S", "t", "r", "i", "n", "g">>, <<"v", "a", "l", "u", "e", "O", "f">>, <<"h", "a", "s", "O", "w", "n", "P", "r", "o", "p", "e", "r", "t", "y">>}
          THEN ProtoMember
          ELSE Undef

Yes == Str(<<"Y", "e", "s">>)

\* Array.prototype.includes on trailUses
usesInclude(uses, v) == \E i \in DOMAIN uses : uses[i] = v

\* lines 277-316: a push for every name whose attribute is "Yes"
NameFlags(trail) ==
  LET flagged == SelectSeq(activityIdMap,
                           LAMBDA e : mapGetAttributeValue(trail, e.name) = Yes)
  IN [i \in DOMAIN flagged |-> Str(flagged[i].name)]

\* IdFlags with the includes test left out
IdFlagsUnguarded(trail, uses) ==
  LET flagged == SelectSeq(activityIdMap,
                           LAMBDA e : mapGetAttributeValue(trail, e.id) = Yes)
  IN uses \o [i \in DOMAIN flagged |-> Str(flagged[i].name)]

\* lines 364-368: Object.entries(activityIdMap).forEach; the table lists no
\* name twice, so the includes test tells only what uses held before
IdFlags(trail, uses) ==
  LET flagged == SelectSeq(activityIdMap,
                           LAMBDA e : /\ mapGetAttributeValue(trail, e.id) = Yes
                                      /\ ~usesInclude(uses, Str(e.name)))
  IN uses \o [i \in DOMAIN flagged |-> Str(flagged[i].name)]

\* what JSON.parse returns: a string, a number, null, an object (of which the
\* members name and id are kept) or an array of these
JString(chars) ==
  [t |-> "string", s |-> chars, n |-> 0, name |-> Undef, id |-> Undef, items |-> <<>>]
JNumber(k) ==
  [t |-> "number", s |-> <<>>, n |-> k, name |-> Undef, id |-> Undef, items |-> <<>>]
JNull ==
  [t |-> "null", s |-> <<>>, n |-> 0, name |-> Undef, id |-> Undef, items |-> <<>>]
JObject(name, id) ==
  [t |-> "object", s |-> <<>>, n |-> 0, name |-> name, id |-> id, items |-> <<>>]
JArray(items) ==
  [t |-> "array", s |-> <<>>, n |-> 0, name |-> Undef, id |-> Undef, items |-> items]

\* a parse step: the value read and the position after it, or a SyntaxError
Parsed(v, pos) == [ok |-> TRUE, v |-> v, pos |-> pos]
SyntaxError == [ok |-> FALSE, v |-> JNull, pos |-> 0]

At(chars, i, c) == i <= Len(chars) /\ chars[i] = c

\* a string literal that opens at position i (the texts hold no escapes)
ParseJString(chars, i) ==
  LET closing == {j \in (i + 1)..Len(chars) : chars[j] = "\""}
  IN IF ~At(chars, i, "\"") \/ closing = {} THEN SyntaxError
     ELSE Parsed(JString(SubSeq(chars, i + 1, First(closing) - 1)), First(closing) + 1)

\* what follows a member's value val: the object's end or a further member
AfterMember(chars, key, val, name, id) ==
  [at |-> SkipSpaces(chars, val.pos),
   name |-> IF key.v.s = <<"n", "a", "m", "e">> THEN Str(val.v.s) ELSE name,
   id |-> IF key.v.s = <<"i", "d">> THEN Str(val.v.s) ELSE id]

RECURSIVE ParseMembers(_, _, _, _)
\* the members of an object from position i on, each a string; name and id
\* are what the members read so far gave
ParseMembers(chars, i, name, id) ==
  CHOOSE parsed \in
    {IF ~key.ok \/ ~At(chars, SkipSpaces(chars, key.pos), ":") THEN SyntaxError
     ELSE CHOOSE rest \in
       {IF ~val.ok THEN SyntaxError
        ELSE CHOOSE end \in
          {IF At(chars, m.at, "}") THEN Parsed(JObject(m.name, m.id), m.at + 1)
           ELSE IF At(chars, m.at, ",") THEN ParseMembers(chars, m.at + 1, m.name, m.id)
           ELSE SyntaxError
           : m \in {AfterMember(chars, key, val, name, id)}} : TRUE
        : val \in {ParseJString(chars, SkipSpaces(chars, SkipSpaces(chars, key.pos) + 1))}} : TRUE
     : key \in {ParseJString(chars, SkipSpaces(chars, i))}} : TRUE

\* a value that is no array, at position i
ParseElement(chars, i) ==
  IF At(chars, i, "\"") THEN ParseJString(chars, i)
  ELSE IF i + 3 <= Len(chars) /\ SubSeq(chars, i, i + 3) = <<"n", "u", "l", "l">>
       THEN Parsed(JNull, i + 4)
  ELSE IF At(chars, i, "{")
       THEN CHOOSE parsed \in
              {IF At(chars, open, "}") THEN Parsed(JObject(Undef, Undef), open + 1)
               ELSE ParseMembers(chars, open, Undef, Undef)
               : open \in {SkipSpaces(chars, i + 1)}} : TRUE
  ELSE CHOOSE parsed \in
         {IF digits > 0 THEN Parsed(JNumber(DigitsValue(chars, i, digits)), i + digits)
          ELSE SyntaxError
          : digits \in {DigitRun(chars, i)}} : TRUE

RECURSIVE ParseItems(_, _, _)
\* the elements of an array from position i on, after those of items
ParseItems(chars, i, items) ==
  CHOOSE parsed \in
    {IF ~el.ok THEN SyntaxError
     ELSE CHOOSE rest \in
       {IF At(chars, after, "]") THEN Parsed(JArray(Append(items, el.v)), after + 1)
        ELSE IF At(chars, after, ",") THEN ParseItems(chars, after + 1, Append(items, el.v))
        ELSE SyntaxError
        : after \in {SkipSpaces(chars, el.pos)}} : TRUE
     : el \in {ParseElement(chars, SkipSpaces(chars, i))}} : TRUE

\* JSON.parse on the texts of strings, non-negative integers, null, objects of
\* string members and arrays of these; any other text is a SyntaxError
JSONparse(chars) ==
  CHOOSE parsed \in
    {IF v.ok /\ SkipSpaces(chars, v.pos) = Len(chars) + 1 THEN v ELSE SyntaxError
     : v \in {CHOOSE value \in
               {IF ~At(chars, b, "[") THEN ParseElement(chars, b)
                ELSE IF At(chars, SkipSpaces(chars, b + 1), "]")
                THEN Parsed(JArray(<<>>), SkipSpaces(chars, b + 1) + 1)
                ELSE ParseItems(chars, b + 1, <<>>)
                : b \in {SkipSpaces(chars, 1)}} : TRUE}} : TRUE

\* lines 376-382: one turn of activities.forEach on element a, after the turns
\* that left `before`; reading `.name` of null throws a TypeError, which leaves
\* the pushes made so far in trailUses
ActivityStep(before, a) ==
  LET uses == before.uses
      mapped == activityIdLookup(a.id.s)
  IN IF before.threw THEN before
     ELSE IF a.t = "string" /\ ~usesInclude(uses, Str(a.s))
     THEN [threw |-> FALSE, uses |-> Append(uses, Str(a.s))]
     ELSE IF a.t = "null" THEN [threw |-> TRUE, uses |-> uses]
     ELSE IF Truthy(a.name) /\ ~usesInclude(uses, a.name)
     THEN [threw |-> FALSE, uses |-> Append(uses, a.name)]
     ELSE IF Truthy(a.id) /\ Truthy(mapped) /\ ~usesInclude(uses, mapped)
     THEN [threw |-> FALSE, uses |-> Append(uses, mapped)]
     ELSE before

RECURSIVE EachActivity(_, _, _)
\* lines 375-383: activities.forEach, after its first n turns
EachActivity(activities, uses, n) ==
  IF n = 0 THEN [threw |-> FALSE, uses |-> uses]
  ELSE CHOOSE after \in {ActivityStep(before, activities[n]) :
                            before \in {EachActivity(activities, uses, n - 1)}} : TRUE

RECURSIVE split(_, _)
\* String.prototype.split(','), from position i on
split(chars, i) ==
  LET commas == {j \in i..Len(chars) : chars[j] = ","}
  IN IF commas = {} THEN <<SubSeq(chars, i, Len(chars))>>
     ELSE <<SubSeq(chars, i, First(commas) - 1)>> \o split(chars, First(commas) + 1)

\* String.prototype.trim
trim(chars) ==
  LET inked == {j \in DOMAIN chars : chars[j] # " "}
  IN IF inked = {} THEN <<>>
     ELSE SubSeq(chars, First(inked), CHOOSE j \in inked : \A k \in inked : k <= j)

\* lines 387-392: the catch block: every trimmed token that is not empty, not
\* in uses and not the same as an earlier token is pushed
CommaSplit(tokens, uses) ==
  LET trimmed == [i \in DOMAIN tokens |-> Str(trim(tokens[i]))]
      pushed == {i \in DOMAIN trimmed :
                   /\ trimmed[i].s # <<>>
                   /\ ~usesInclude(uses, trimmed[i])
                   /\ \A j \in 1..(i - 1) : trimmed[j] # trimmed[i]}
  IN uses \o Pick(trimmed, pushed, 1)

\* lines 371-394: the Activities attribute, parsed as JSON or split on commas
ActivitiesUses(uses, activitiesAttribute) ==
  IF ~Truthy(activitiesAttribute) THEN uses
  ELSE CHOOSE merged \in
    {IF ~activities.ok THEN CommaSplit(split(activitiesAttribute.s, 1), uses)
     ELSE IF activities.v.t # "array" THEN uses
     ELSE CHOOSE after \in
       {IF each.threw THEN CommaSplit(split(activitiesAttribute.s, 1), each.uses)
        ELSE each.uses
        : each \in {EachActivity(activities.v.items, uses, Len(activities.v.items))}} : TRUE
     : activities \in {JSONparse(activitiesAttribute.s)}} : TRUE

Activities == <<"A", "c", "t", "i", "v", "i", "t", "i", "e", "s">>

\* lines 275-396: trailUses as mapTrailResponse builds it
trailUses(trail) ==
  ActivitiesUses(IdFlags(trail, NameFlags(trail)), mapGetAttributeValue(trail, Activities))

\* mapTrailResponse, for a trail it does not throw on
mapTrailResponse(trail, code) ==
  [id |-> NumToStr(trail.FacilityID),
   name |-> trail.FacilityName,
   parkCode |-> code,
   length |-> ParseOptional(mapGetAttributeValue(trail, TrailLength)),
   difficulty |-> mapGetAttributeValue(trail, TrailDifficulty),
   elevationGain |-> ParseOptional(mapGetAttributeValue(trail, ElevationGain)),
   trailType |-> mapGetAttributeValue(trail, TrailType),
   surfaceType |-> mapGetAttributeValue(trail, TrailSurface),
   trailUse |-> trailUses(trail)]


----------------------------------------------------------------------------
(* RecGovService.getTrailsByPark *)

\* isTrailFacility with the type test left out
isTrailFacilityNameOnly(facility) ==
  /\ Truthy(facility.FacilityName)
  /\ includes(toLowerCase(facility.FacilityName.s), <<"t", "r", "a", "i", "l">>)

\* the filter of lines 144-147 and 163-166
isTrailFacility(facility) ==
  \/ facility.FacilityTypeDescription = Str(<<"T", "r", "a", "i", "l">>)
  \/ /\ Truthy(facility.FacilityName)
     /\ includes(toLowerCase(facility.FacilityName.s), <<"t", "r", "a", "i", "l">>)

\* a >= b and a <= b on numbers; false when either is NaN
NumGE(a, b) == a.t = "number" /\ b.t = "number" /\ a.n >= b.n
NumLE(a, b) == a.t = "number" /\ b.t = "number" /\ a.n <= b.n

\* DetailLoopBody with the `else` lost: the enriched entry and the bare one
DetailLoopBodyNoElse(detailed, trail, resp) ==
  IF resp.ok /\ resp.hasData
  THEN Append(Append(detailed, [trail EXCEPT !.Attributes = resp.ATTRIBUTES]), trail)
  ELSE Append(detailed, trail)

\* the body of the detail loop: detailedTrails after the turn for trail; one
\* entry is pushed, enriched when the detail record came with RECDATA
DetailLoopBody(detailed, trail, resp) ==
  IF resp.ok /\ resp.hasData
  THEN Append(detailed, [trail EXCEPT !.Attributes = resp.ATTRIBUTES])
  ELSE Append(detailed, trail)

FilterTrailId(list, q) ==
  IF Truthy(q.trailId)
  THEN SelectSeq(list, LAMBDA t : Str(NumToStr(t.FacilityID)) = q.trailId)
  ELSE list

FilterDifficulty(list, q) ==
  IF Truthy(q.difficulty)
  THEN SelectSeq(list, LAMBDA t :
         LET difficultyAttr == getAttributeValue(t, TrailDifficulty)
         IN /\ Truthy(difficultyAttr)
            /\ includes(toLowerCase(difficultyAttr.s), toLowerCase(q.difficulty.s)))
  ELSE list

FilterMinLength(list, q) ==
  IF Truthy(q.minLength)
  THEN SelectSeq(list, LAMBDA t :
         LET lengthAttr == getAttributeValue(t, TrailLength)
         IN Truthy(lengthAttr) /\ NumGE(parseFloat(lengthAttr.s), q.minLength))
  ELSE list

FilterMaxLength(list, q) ==
  IF Truthy(q.maxLength)
  THEN SelectSeq(list, LAMBDA t :
         LET lengthAttr == getAttributeValue(t, TrailLength)
         IN Truthy(lengthAttr) /\ NumLE(parseFloat(lengthAttr.s), q.maxLength))
  ELSE list

\* `if (query) { ... }`: the four filters in the code's order
ApplyFilters(detailed, q) ==
  IF q.given
  THEN FilterMaxLength(FilterMinLength(FilterDifficulty(FilterTrailId(detailed, q), q), q), q)
  ELSE detailed

\* from the end of the detail loop to the return: filter, then map; a throw of
\* mapTrailResponse reaches the outer catch, which rethrows
Finalize(detailed, q, code) ==
  LET filteredTrails == ApplyFilters(detailed, q)
  IN IF \E i \in DOMAIN filteredTrails : mapTrailThrows(filteredTrails[i])
     THEN [outcome |-> "threw", result |-> <<>>]
     ELSE [outcome |-> "returned",
           result |-> [i \in DOMAIN filteredTrails |->
                         mapTrailResponse(filteredTrails[i], code)]]

----------------------------------------------------------------------------
(* mapTrailResponse checked alone: its inputs *)

\* the texts a numeric attribute is given as
NumericTexts == {<<"4", ".", "5">>, <<"a", "b", "c">>, <<"6">>, <<"0">>, <<" ", "1", "2", " ", "m", "i">>, <<"-", ".", "5">>}

LengthAttrs ==
  {<<>>} \cup {<<Attr(Str(TrailLength), Undef, Str(v))>> : v \in NumericTexts}
GainAttrs ==
  {<<>>} \cup {<<Attr(Str(ElevationGain), Undef, Str(v))>> : v \in NumericTexts}
AttrLists == {a \o b : a \in LengthAttrs, b \in GainAttrs}

MapContainers ==
  {NoAttributes} \cup {FlatAttributes(l) : l \in AttrLists}
                 \cup {NestedAttributes(l) : l \in AttrLists}

\* the trails mapTrailResponse is applied to
MapTrails ==
  {[FacilityID |-> 30, FacilityName |-> Str(<<"M", "i", "s", "t", " ", "T", "r", "a", "i", "l">>),
    FacilityTypeDescription |-> Str(<<"T", "r", "a", "i", "l">>), Attributes |-> c] : c \in MapContainers}

HikingId == activityIdMap[18].id
BikingId == activityIdMap[4].id
Flag(name, value) == Attr(Str(name), Undef, Str(value))

\* the texts the Activities attribute is given as: comma-separated lists, JSON
\* arrays of strings, of objects, of null and numbers, and JSON that is no array
ActivityTexts ==
  {<<"H", "i", "k", "i", "n", "g", ",", " ", "B", "i", "k", "i", "n", "g">>, <<" ", "H", "i", "k", "i", "n", "g", " ", ",", ",", " ", "F", "i", "s", "h", "i", "n", "g", " ">>, <<"H", "i", "k", "i", "n", "g">>,
   <<"[", "\"", "H", "i", "k", "i", "n", "g", "\"", "]">>, <<"[", "\"", "H", "i", "k", "i", "n", "g", "\"", ",", " ", "\"", "B", "i", "k", "i", "n", "g", "\"", "]">>, <<"[", "\"", "H", "i", "k", "i", "n", "g", "\"", ",", " ", "\"", "H", "i", "k", "i", "n", "g", "\"", "]">>, <<"[", "]">>,
   <<"[", "\"", "H", "i", "k", "i", "n", "g", "\"", ",", " ", "n", "u", "l", "l", "]">>, <<"[", "n", "u", "l", "l", "]">>, <<"[", "5", ",", " ", "\"", "S", "w", "i", "m", "m", "i", "n", "g", "\"", "]">>,
   <<"[", "{", "\"", "n", "a", "m", "e", "\"", ":", " ", "\"", "H", "i", "k", "i", "n", "g", "\"", "}", "]">>, <<"[", "{", "\"", "n", "a", "m", "e", "\"", ":", " ", "\"", "D", "o", "g", " ", "W", "a", "l", "k", "i", "n", "g", "\"", "}", ",", " ", "{", "}", "]">>,
   <<"[", "{", "\"", "i", "d", "\"", ":", "\"">> \o HikingId \o <<"\"", "}", "]">>,
   <<"[", "{", "\"", "i", "d", "\"", ":", "\"">> \o BikingId \o <<"\"", "}", ",", "\"", "H", "i", "k", "i", "n", "g", "\"", "]">>,
   <<"[", "{", "\"", "i", "d", "\"", ":", " ", "\"", "c", "o", "n", "s", "t", "r", "u", "c", "t", "o", "r", "\"", "}", "]">>, <<"\"", "H", "i", "k", "i", "n", "g", "\"">>, <<"n", "u", "l", "l">>}

\* the attribute lists that carry capabilities: name-keyed flags, id-keyed
\* flags and the Activities attribute, each present or not
UseAttrLists ==
  {h \o b \o hi \o bi \o a :
     h \in {<<>>, <<Flag(<<"H", "i", "k", "i", "n", "g">>, <<"Y", "e", "s">>)>>, <<Flag(<<"H", "i", "k", "i", "n", "g">>, <<"N", "o">>), Flag(<<"H", "i", "k", "i", "n", "g">>, <<"Y", "e", "s">>)>>},
     b \in {<<>>, <<Flag(<<"B", "i", "k", "i", "n", "g">>, <<"Y", "e", "s">>)>>},
     hi \in {<<>>, <<Flag(HikingId, <<"Y", "e", "s">>)>>},
     bi \in {<<>>, <<Flag(BikingId, <<"Y", "e", "s">>)>>},
     a \in {<<>>} \cup {<<Flag(Activities, text)>> : text \in ActivityTexts}}

\* the trails mapTrailResponse is applied to for their capabilities
UseTrails ==
  {[FacilityID |-> 30, FacilityName |-> Str(<<"M", "i", "s", "t", " ", "T", "r", "a", "i", "l">>),
    FacilityTypeDescription |-> Str(<<"T", "r", "a", "i", "l">>), Attributes |-> FlatAttributes(l)] : l \in UseAttrLists}

NoTrail ==
  [FacilityID |-> 0, FacilityName |-> Undef, FacilityTypeDescription |-> Undef,
   Attributes |-> NoAttributes]
NotMapped == [status |-> "none", trail |-> mapTrailResponse(NoTrail, "")]

----------------------------------------------------------------------------
(* planParkVisit: the weather scoring of one forecast day *)

\* `score += ...` on the average temperature; avgTemp is (max + min) / 2, so
\* the comparisons are made on max + min against twice the limits
TemperatureScore(d) ==
  LET twiceAvg == d.maxTempF + d.minTempF
  IN IF twiceAvg >= 2 * 65 /\ twiceAvg <= 2 * 80 THEN 3
     ELSE IF twiceAvg >= 2 * 50 /\ twiceAvg <= 2 * 85 THEN 2
     ELSE 1

\* RainScore with <= for <
RainScoreInclusive(d) ==
  IF d.chanceOfRain <= 20 THEN 3
  ELSE IF d.chanceOfRain <= 40 THEN 2
  ELSE IF d.chanceOfRain <= 60 THEN 1
  ELSE 0

\* `score += ...` on the chance of rain
RainScore(d) ==
  IF d.chanceOfRain < 20 THEN 3
  ELSE IF d.chanceOfRain < 40 THEN 2
  ELSE IF d.chanceOfRain < 60 THEN 1
  ELSE 0

goodConditions == {<<"s", "u", "n", "n", "y">>, <<"c", "l", "e", "a", "r">>, <<"p", "a", "r", "t", "l", "y", " ", "c", "l", "o", "u", "d", "y">>}

\* `score += 2` when the condition text names a good condition
ConditionScore(d) ==
  IF \E c \in goodConditions : includes(toLowerCase(d.condition), c) THEN 2 ELSE 0

\* the score the forEach body computes for day d
DayScore(d) == 0 + TemperatureScore(d) + RainScore(d) + ConditionScore(d)

\* the forecast days the scoring is applied to
MinTemps == {49, 50, 60, 64, 65, 80, 85, 90}
MaxTemps == {50, 65, 80, 81, 85, 86, 100}
RainChances == {0, 10, 19, 20, 39, 40, 59, 60, 80, 100}
ConditionTexts ==
  {<<"S", "u", "n", "n", "y">>, <<"C", "l", "e", "a", "r">>, <<"P", "a", "r", "t", "l", "y", " ", "c", "l", "o", "u", "d", "y">>, <<"M", "o", "s", "t", "l", "y", " ", "S", "U", "N", "N", "Y">>, <<"S", "t", "o", "r", "m", "y">>, <<"C", "l", "o", "u", "d", "y">>, <<"P", "a", "t", "c", "h", "y", " ", "r", "a", "i", "n">>}

ForecastDays ==
  {[minTempF |-> lo, maxTempF |-> hi, chanceOfRain |-> r, condition |-> c] :
     lo \in MinTemps, hi \in {h \in MaxTemps : h >= 50}, r \in RainChances,
     c \in ConditionTexts}

NoDay == [minTempF |-> 0, maxTempF |-> 0, chanceOfRain |-> 0, condition |-> <<>>]
NotScored == [done |-> FALSE, score |-> 0]

----------------------------------------------------------------------------
(* getTrailsByPark: the state machine *)

NotResolved == [done |-> FALSE, value |-> Undef]

\* one http.get, as the log keeps it
Request(kind, key, ok) == [kind |-> kind, key |-> key, ok |-> ok]

\* no call is under way
\* no report tool has been called
NoArgs == [parkCode |-> "", startDate |-> Undef, endDate |-> Undef]
NoReply == [kind |-> "none", lines |-> <<>>]
\* no OAuth callback has been received
NoAuthRequest == [valid |-> FALSE, clientId |-> "", scope |-> ""]
NoUpstream == [threw |-> FALSE, ok |-> FALSE, status |-> 0, form |-> FALSE, access_token |-> Null]
NoTokenResult == [returned |-> FALSE, token |-> Null, err |-> Null]
NoUser == [login |-> Undef, name |-> Undef, email |-> Undef]
AuthIdle ==
  /\ authPc = "idle"
  /\ authArgs = [state |-> NoAuthRequest, code |-> Undef]
  /\ oauthReqInfo = NoAuthRequest
  /\ upstream = NoUpstream
  /\ tokenResult = NoTokenResult
  /\ user = NoUser
  /\ authReply = [kind |-> "none", status |-> 0, body |-> ""]
  /\ authLog = <<>>

ReportIdle ==
  /\ step = "idle"
  /\ tool = ""
  /\ args = NoArgs
  /\ park = [name |-> Undef, parkCode |-> "", description |-> Undef, latitude |-> Undef, longitude |-> Undef]
  /\ alerts = <<>>
  /\ forecast = <<>>
  /\ detailedForecast = <<>>
  /\ events = <<>>
  /\ campgrounds = <<>>
  /\ goodWeatherDays = <<>>
  /\ reply = NoReply
  /\ fetched = <<>>

TrailsIdle ==
  /\ pc = "idle"
  /\ parkCode = ""
  /\ query = NoQuery
  /\ resolved = NotResolved
  /\ trails = <<>>
  /\ detailedTrails = <<>>
  /\ outcome = "none"
  /\ result = <<>>
  /\ next = 1
  /\ calls = <<>>
  /\ areas = <<>>
  /\ facilityList = <<>>
  /\ searchList = <<>>
  /\ cancelled = FALSE

Init ==
  /\ TrailsIdle
  /\ mapIn = NoTrail /\ mapOut = NotMapped
  /\ day = NoDay /\ scored = NotScored
  /\ ReportIdle
  /\ AuthIdle

\* the RECDATA of an answer, as the code reads it: nothing when the request
\* threw or the body holds no RECDATA
Received(resp) == IF resp.ok /\ resp.hasData THEN resp.RECDATA ELSE <<>>

\* the fallback decision with the search never made
NeedsFallbackNever(found, code) == FALSE

\* `if (trails.length === 0)` and, inside it, `if (parkName)`
NeedsFallback(found, code) ==
  found = <<>> /\ Truthy(getParkNameFromCode(code))

\* the call settles: it resolves with list, or rejects
Settle(how, list) ==
  /\ pc' = "done"
  /\ outcome' = how
  /\ result' = list

\* Rethrow with the error swallowed into an empty list
RethrowSwallowed == Settle("returned", <<>>)

\* the outer catch: the error is logged and thrown again
Rethrow == Settle("threw", <<>>)

\* AfterResolve with the facility list requested whatever the resolver returned
AfterResolveAlwaysFetch(value) ==
  /\ resolved' = [done |-> TRUE, value |-> value]
  /\ pc' = "facilities" /\ UNCHANGED <<outcome, result>>

\* `if (!recAreaId) return []`, else on to the facility-list request
AfterResolve(value) ==
  /\ resolved' = [done |-> TRUE, value |-> value]
  /\ IF Truthy(value)
     THEN pc' = "facilities" /\ UNCHANGED <<outcome, result>>
     ELSE Settle("returned", <<>>)

\* the trail candidates are known: run the detail loop, or, with none, go
\* straight to the filters and the return
AfterCandidates(list) ==
  /\ trails' = list
  /\ detailedTrails' = <<>>
  /\ IF list # <<>>
     THEN pc' = "detail" /\ UNCHANGED <<outcome, result>>
     ELSE LET fin == Finalize(<<>>, query, parkCode)
          IN Settle(fin.outcome, fin.result)

\* the arguments getTrailsByPark is called with: every query for the park
\* codes of the static table, no query for the codes that take the search path
CallArguments ==
  {a \in ParkCodes \X Queries : a[1] \in DOMAIN knownMappings \/ a[2] = NoQuery}

\* getTrailsByPark is called; parkToRecAreaId runs up to its first await
Call ==
  /\ pc = "idle"
  /\ \E code \in ParkCodes, q \in Queries :
       /\ <<code, q>> \in CallArguments
       /\ parkCode' = code
       /\ query' = q
       /\ LET r == ResolveStatic(code)
          IN IF r.done
             THEN AfterResolve(r.value)
             ELSE /\ pc' = "areaSearch"
                  /\ UNCHANGED <<resolved, outcome, result>>
  /\ UNCHANGED <<trails, detailedTrails, next, calls, areas, facilityList, searchList,
                 cancelled, mapVars, scoreVars, reportVars, authVars>>

\* the area search of parkToRecAreaId answers or throws
AreaSearch ==
  /\ pc = "areaSearch"
  /\ \E resp \in AreaResponses :
       /\ calls' = Append(calls, Request("areaSearch", getParkNameFromCode(parkCode), resp.ok))
       /\ areas' = Received(resp)
       /\ AfterResolve(ResolveSearch(resp, parkCode))
  /\ UNCHANGED <<parkCode, query, trails, detailedTrails, next, facilityList, searchList,
                 cancelled, mapVars, scoreVars, reportVars, authVars>>

\* the facility list of the area answers or throws
FetchFacilities ==
  /\ pc = "facilities"
  /\ \E resp \in FacilityResponses :
       /\ calls' = Append(calls, Request("facilities", resolved.value, resp.ok))
       /\ facilityList' = Received(resp)
       /\ IF ~resp.ok
          THEN Rethrow /\ UNCHANGED <<trails, detailedTrails>>
          ELSE IF ~resp.hasData \/ Len(resp.RECDATA) = 0
          THEN Settle("returned", <<>>) /\ UNCHANGED <<trails, detailedTrails>>
          ELSE LET found == SelectSeq(resp.RECDATA, isTrailFacility)
               IN IF NeedsFallback(found, parkCode)
                  THEN /\ pc' = "fallback"
                       /\ UNCHANGED <<trails, detailedTrails, outcome, result>>
                  ELSE AfterCandidates(found)
  /\ UNCHANGED <<parkCode, query, resolved, next, areas, searchList, cancelled,
                 mapVars, scoreVars, reportVars, authVars>>

\* the fallback keyword search answers or throws; a body without RECDATA makes
\* searchResp.RECDATA.filter throw
FallbackSearch ==
  /\ pc = "fallback"
  /\ \E resp \in FacilityResponses :
       /\ calls' = Append(calls, Request("fallback", getParkNameFromCode(parkCode), resp.ok))
       /\ searchList' = Received(resp)
       /\ IF ~resp.ok \/ ~resp.hasData
          THEN Rethrow /\ UNCHANGED <<trails, detailedTrails>>
          ELSE AfterCandidates(SelectSeq(resp.RECDATA, isTrailFacility))
  /\ UNCHANGED <<parkCode, query, resolved, next, areas, facilityList, cancelled,
                 mapVars, scoreVars, reportVars, authVars>>

\* FetchDetail with a failed detail request issued again
FetchDetailRetrying ==
  /\ pc = "detail"
  /\ LET trail == trails[next]
     IN \E resp \in DetailResponses(trail.FacilityID) :
          LET pushed == DetailLoopBody(detailedTrails, trail, resp)
              fin == Finalize(pushed, query, parkCode)
          IN /\ calls' = Append(calls, Request("detail", Num(trail.FacilityID), resp.ok))
             /\ IF ~resp.ok
                THEN UNCHANGED <<detailedTrails, next, pc, outcome, result>>
                ELSE /\ detailedTrails' = pushed
                     /\ next' = next + 1
                     /\ IF next = Len(trails)
                        THEN Settle(fin.outcome, fin.result)
                        ELSE UNCHANGED <<pc, outcome, result>>
  /\ UNCHANGED <<parkCode, query, resolved, trails, areas, facilityList, searchList,
                 cancelled, mapVars, scoreVars, reportVars, authVars>>

\* one turn of the detail loop: the detail record of the next candidate answers
\* or throws; after the last candidate the call filters, maps and returns
FetchDetail ==
  /\ pc = "detail"
  /\ LET trail == trails[next]
     IN \E resp \in DetailResponses(trail.FacilityID) :
          LET pushed == DetailLoopBody(detailedTrails, trail, resp)
              fin == Finalize(pushed, query, parkCode)
          IN /\ calls' = Append(calls, Request("detail", Num(trail.FacilityID), resp.ok))
             /\ detailedTrails' = pushed
             /\ next' = next + 1
             /\ IF next = Len(trails)
                THEN Settle(fin.outcome, fin.result)
                ELSE UNCHANGED <<pc, outcome, result>>
  /\ UNCHANGED <<parkCode, query, resolved, trails, areas, facilityList, searchList,
                 cancelled, mapVars, scoreVars, reportVars, authVars>>

Next == Call \/ AreaSearch \/ FetchFacilities \/ FallbackSearch \/ FetchDetail

Spec == Init /\ [][Next]_vars

\* the caller's deadline fires while the call is suspended at a detail
\* request; getTrailsByPark(parkCode, query) takes no signal, so nothing of the
\* call changes
Deadline ==
  /\ pc = "detail"
  /\ ~cancelled
  /\ cancelled' = TRUE
  /\ UNCHANGED <<pc, parkCode, query, resolved, trails, detailedTrails, outcome, result,
                 next, calls, areas, facilityList, searchList, mapVars, scoreVars, reportVars, authVars>>

NextCancel == Next \/ Deadline

SpecCancel == Init /\ [][NextCancel]_vars


----------------------------------------------------------------------------
(* mapTrailResponse checked alone *)

InitMap ==
  /\ TrailsIdle
  /\ mapIn \in MapTrails /\ mapOut = NotMapped
  /\ day = NoDay /\ scored = NotScored
  /\ ReportIdle
  /\ AuthIdle

\* mapTrailResponse(mapIn, "acad") returns a Trail or throws
MapTrail ==
  /\ mapOut.status = "none"
  /\ mapOut' = IF mapTrailThrows(mapIn)
               THEN [status |-> "threw", trail |-> NotMapped.trail]
               ELSE [status |-> "returned", trail |-> mapTrailResponse(mapIn, "acad")]
  /\ UNCHANGED <<trailVars, mapIn, scoreVars, reportVars, authVars>>

NextMap == MapTrail

SpecMap == InitMap /\ [][NextMap]_vars

----------------------------------------------------------------------------
(* The weather scoring checked alone *)

\* mapTrailResponse on the trails that carry capabilities
InitUse ==
  /\ TrailsIdle
  /\ mapIn \in UseTrails /\ mapOut = NotMapped
  /\ day = NoDay /\ scored = NotScored
  /\ ReportIdle
  /\ AuthIdle

SpecUse == InitUse /\ [][NextMap]_vars

InitScore ==
  /\ TrailsIdle
  /\ mapIn = NoTrail /\ mapOut = NotMapped
  /\ day \in ForecastDays /\ scored = NotScored
  /\ ReportIdle
  /\ AuthIdle

\* one turn of detailedForecast.forEach: the entry for day is pushed
ScoreDay ==
  /\ ~scored.done
  /\ scored' = [done |-> TRUE, score |-> DayScore(day)]
  /\ UNCHANGED <<trailVars, mapVars, day, reportVars, authVars>>

NextScore == ScoreDay

SpecScore == InitScore /\ [][NextScore]_vars


----------------------------------------------------------------------------
(* planParkVisit and getParkOverview: the upstream's data *)

MaxItems == 2
MaxForecast == 3
MaxDetailed == 4

\* what a service method does: it throws, or resolves with a list
FetchFailed == [ok |-> FALSE, data |-> <<>>]
Fetched(list) == [ok |-> TRUE, data |-> list]

\* the park of /parks?parkCode=, as mapParkResponse returns it
ParkOf(code) ==
  [name |-> IF code = "yose" THEN Str(<<"Y", "o", "s", "e", "m", "i", "t", "e", " ", "N", "a", "t", "i", "o", "n", "a", "l", " ", "P", "a", "r", "k">>) ELSE Str(<<"A", "c", "a", "d", "i", "a", " ", "N", "a", "t", "i", "o", "n", "a", "l", " ", "P", "a", "r", "k">>),
   parkCode |-> code,
   description |-> Undef,
   latitude |-> IF code = "yose" THEN Num(37) ELSE Undef,
   longitude |-> IF code = "yose" THEN Num(119) ELSE Undef]
ReportParkCodes == {"yose", "acad"}
\* the request throws, or `data` is empty, or it holds the park
ParkResponses(code) == {FetchFailed, Fetched(<<>>), Fetched(<<ParkOf(code)>>)}

Alert(title, category, description) ==
  [title |-> title, category |-> category, description |-> description]
AlertPool ==
  << Alert(<<"R", "o", "a", "d", " ", "C", "l", "o", "s", "u", "r", "e">>, <<"I", "n", "f", "o", "r", "m", "a", "t", "i", "o", "n">>, Str(<<"T", "i", "o", "g", "a", " ", "R", "o", "a", "d">>)),
     Alert(<<"B", "r", "i", "d", "g", "e", " ", "c", "l", "o", "s", "e", "d">>, <<"C", "a", "u", "t", "i", "o", "n">>, Str(<<"U", "s", "e", " ", "t", "h", "e", " ", "f", "o", "r", "d">>)),
     Alert(<<"B", "e", "a", "r", " ", "a", "c", "t", "i", "v", "i", "t", "y">>, <<"P", "a", "r", "k", " ", "C", "l", "o", "s", "u", "r", "e">>, Str(<<"S", "t", "o", "r", "e", " ", "f", "o", "o", "d">>)),
     Alert(<<"F", "i", "r", "e", " ", "b", "a", "n">>, <<"C", "l", "o", "s", "e", "d", " ", "A", "r", "e", "a">>, Str(<<"N", "o", " ", "o", "p", "e", "n", " ", "f", "i", "r", "e", "s">>)),
     Alert(<<"T", "r", "a", "i", "l", " ", "C", "l", "o", "s", "u", "r", "e">>, <<"D", "a", "n", "g", "e", "r">>, Undef) >>
AlertResponses == {FetchFailed} \cup {Fetched(l) : l \in ListsOf(AlertPool, MaxItems)}

ForecastDay(date, lo, hi, rain, condition) ==
  [date |-> date, minTempF |-> lo, maxTempF |-> hi, chanceOfRain |-> rain, condition |-> condition]
\* the days the weather service may answer with; 05-04 and 05-05 score alike,
\* and so do 05-03 and 05-06
DayPool ==
  << ForecastDay(<<"2", "0", "2", "4", "-", "0", "5", "-", "0", "3">>, 60, 80, 10, <<"S", "u", "n", "n", "y">>),
     ForecastDay(<<"2", "0", "2", "4", "-", "0", "5", "-", "0", "4">>, 50, 70, 30, <<"C", "l", "o", "u", "d", "y">>),
     ForecastDay(<<"2", "0", "2", "4", "-", "0", "5", "-", "0", "5">>, 60, 80, 50, <<"P", "a", "t", "c", "h", "y", " ", "r", "a", "i", "n">>),
     ForecastDay(<<"2", "0", "2", "4", "-", "0", "5", "-", "0", "6">>, 60, 80, 10, <<"C", "l", "e", "a", "r">>),
     ForecastDay(<<"2", "0", "2", "4", "-", "0", "5", "-", "1", "0">>, 90, 100, 80, <<"S", "t", "o", "r", "m", "y">>) >>
\* get7DayForecastByLocation throws, or answers with no day, or with days
ForecastResponses ==
  {FetchFailed} \cup {Fetched(l) : l \in ListsOf(SubSeq(DayPool, 1, 3) \o <<DayPool[5]>>, MaxForecast)}
\* getDetailedForecast likewise
DetailedResponses == {FetchFailed} \cup {Fetched(l) : l \in ListsOf(DayPool, MaxDetailed)}

EventPool ==
  << [title |-> <<"R", "a", "n", "g", "e", "r", " ", "t", "a", "l", "k">>, dateStart |-> <<"2", "0", "2", "4", "-", "0", "5", "-", "0", "4">>, location |-> <<"V", "a", "l", "l", "e", "y">>],
     [title |-> <<"S", "t", "a", "r", " ", "p", "a", "r", "t", "y">>, dateStart |-> <<"2", "0", "2", "4", "-", "0", "5", "-", "0", "5">>, location |-> <<"G", "l", "a", "c", "i", "e", "r", " ", "P", "o", "i", "n", "t">>] >>
EventResponses == {FetchFailed} \cup {Fetched(l) : l \in ListsOf(EventPool, MaxItems)}

CampgroundPool ==
  << [name |-> <<"U", "p", "p", "e", "r", " ", "P", "i", "n", "e", "s">>, totalSites |-> Num(238)],
     [name |-> <<"B", "a", "c", "k", "p", "a", "c", "k", "e", "r", "s">>, totalSites |-> Undef] >>
CampgroundResponses == {FetchFailed} \cup {Fetched(l) : l \in ListsOf(CampgroundPool, MaxItems)}

\* the arguments startDate and endDate of planParkVisit: both optional
Window(startDate, endDate) == [startDate |-> startDate, endDate |-> endDate]
NoWindow == Window(Undef, Undef)
Windows ==
  { NoWindow,
    Window(Str(<<"2", "0", "2", "4", "-", "0", "5", "-", "0", "1">>), Undef),
    Window(Str(<<"2", "0", "2", "4", "-", "0", "5", "-", "0", "1">>), Str(<<"2", "0", "2", "4", "-", "0", "5", "-", "0", "5">>)),
    Window(Str(<<"2", "0", "2", "4", "-", "0", "1", "-", "0", "1">>), Str(<<"2", "0", "2", "4", "-", "0", "1", "-", "0", "5">>)),
    Window(Str(<<"2", "0", "2", "4", "-", "0", "5", "-", "0", "4">>), Str(<<"2", "0", "2", "4", "-", "0", "5", "-", "0", "4">>)),
    Window(Str(<<"2", "0", "2", "4", "-", "0", "5", "-", "0", "6">>), Str(<<"2", "0", "2", "4", "-", "0", "5", "-", "0", "9">>)),
    Window(Str(<<"2", "0", "2", "4", "-", "0", "5", "-", "1", "0">>), Str(<<"2", "0", "2", "4", "-", "0", "5", "-", "0", "4">>)) }

----------------------------------------------------------------------------
(* planParkVisit and getParkOverview: the composition of the report *)

\* `new Date("YYYY-MM-DD")`, kept up to a map that preserves the order of dates
DateOrdinal(chars) ==
  DigitsValue(chars, 1, 4) * 372 + (DigitsValue(chars, 6, 2) - 1) * 31 + (DigitsValue(chars, 9, 2) - 1)

\* one entry of goodWeatherDays
ScoredDay(d) ==
  [date |-> d.date, score |-> DayScore(d),
   conditions |-> <<d.minTempF, d.maxTempF, d.condition, d.chanceOfRain>>]

\* detailedForecast.forEach: one entry pushed for every day, in order
ScoreAll(detailed) == [i \in DOMAIN detailed |-> ScoredDay(detailed[i])]

\* a sort by descending score that puts a later entry ahead of its equals
SortByScoreUnstable(list) ==
  LET place(i) == Cardinality({j \in DOMAIN list : list[j].score > list[i].score})
                  + Cardinality({j \in DOMAIN list : j > i /\ list[j].score = list[i].score}) + 1
  IN [k \in DOMAIN list |-> list[CHOOSE i \in DOMAIN list : place(i) = k]]

\* goodWeatherDays.sort((a, b) => b.score - a.score): Array.prototype.sort is
\* stable, so an entry ends behind the entries that score higher and behind
\* the equal-scoring entries that were ahead of it
SortByScore(list) ==
  LET place(i) == Cardinality({j \in DOMAIN list : list[j].score > list[i].score})
                  + Cardinality({j \in DOMAIN list : j < i /\ list[j].score = list[i].score}) + 1
  IN [k \in DOMAIN list |-> list[CHOOSE i \in DOMAIN list : place(i) = k]]

\* a line of the response text: its kind and the holes of its template that
\* the report is read by (a date, title or name, and a count or position)
Line(k, v, n) == [k |-> k, v |-> v, n |-> n]
\* a composition, complete or cut short by a throw
Plain(lines) == [threw |-> FALSE, lines |-> lines]
Then(a, b) == IF a.threw THEN a ELSE [threw |-> b.threw, lines |-> a.lines \o b.lines]

\* one line per alert; alert.description.substring throws on the first alert
\* without description
AlertItems(list) ==
  LET missing == {i \in DOMAIN list : list[i].description.t # "string"}
      written == IF missing = {} THEN Len(list) ELSE First(missing) - 1
  IN [threw |-> missing # {},
      lines |-> [i \in 1..written |-> Line("alertItem", list[i].title, i)]]

\* IsClosureAlert with the category test left out
IsClosureAlertTitleOnly(a) ==
  \/ includes(toLowerCase(a.title), <<"c", "l", "o", "s", "u", "r", "e">>)
  \/ includes(toLowerCase(a.title), <<"c", "l", "o", "s", "e", "d">>)

\* the filter of closureAlerts
IsClosureAlert(a) ==
  \/ includes(toLowerCase(a.title), <<"c", "l", "o", "s", "u", "r", "e">>)
  \/ includes(toLowerCase(a.title), <<"c", "l", "o", "s", "e", "d">>)
  \/ includes(toLowerCase(a.category), <<"c", "l", "o", "s", "u", "r", "e">>)

\* "Important Alerts", only when a closure alert exists
PlanAlerts(alertList) ==
  LET closureAlerts == SelectSeq(alertList, IsClosureAlert)
  IN IF Len(closureAlerts) > 0
     THEN Then(Plain(<<Line("importantAlerts", <<>>, Len(closureAlerts))>>), AlertItems(closureAlerts))
     ELSE Plain(<<>>)

DayLines(kind, days) == [i \in DOMAIN days |-> Line(kind, days[i].date, i)]

\* "7-Day Weather Outlook" / "7-Day Weather Forecast"
ForecastSection(heading, forecastDays) ==
  <<Line(heading, <<>>, 0)>> \o
  (IF Len(forecastDays) = 0 THEN <<Line("forecastNotAvailable", <<>>, 0)>>
   ELSE DayLines("forecastDay", forecastDays))

\* Recommended without the slice: every ranked day is listed
RecommendedAll(ranked) ==
  IF Len(ranked) > 0
  THEN <<Line("recommendedDays", <<>>, 0)>> \o DayLines("recommendedDay", ranked)
  ELSE <<>>

\* "Recommended Visit Days": goodWeatherDays.slice(0, 3)
Recommended(ranked) ==
  IF Len(ranked) > 0
  THEN <<Line("recommendedDays", <<>>, 0)>> \o
       DayLines("recommendedDay", SubSeq(ranked, 1, IF Len(ranked) < 3 THEN Len(ranked) ELSE 3))
  ELSE <<>>

\* "Planning Tips": three tips, of Yosemite, of the Grand Canyon or generic
PlanningTips(thePark) ==
  LET which == IF thePark.parkCode = "yose" THEN <<"y", "o", "s", "e">>
               ELSE IF thePark.parkCode = "grca" THEN <<"g", "r", "c", "a">>
               ELSE <<"g", "e", "n", "e", "r", "i", "c">>
  IN <<Line("planningTips", <<>>, 0)>> \o [i \in 1..3 |-> Line("tip", which, i)]

\* the filter of tripForecast with the end of the window left out
InTripExclusive(dayDate, tripStartDate, tripEndDate) ==
  dayDate >= tripStartDate /\ dayDate < tripEndDate

\* `dayDate >= tripStartDate && dayDate <= tripEndDate`
InTrip(dayDate, tripStartDate, tripEndDate) ==
  dayDate >= tripStartDate /\ dayDate <= tripEndDate

\* "Your Trip": only for `startDate && endDate`, and silent past the heading
\* when there is no forecast
TripSection(forecastDays, startDate, endDate) ==
  IF ~(Truthy(startDate) /\ Truthy(endDate)) THEN <<>>
  ELSE
    LET tripStartDate == DateOrdinal(startDate.s)
        tripEndDate == DateOrdinal(endDate.s)
        forecastStartDate == DateOrdinal(forecastDays[1].date)
        forecastEndDate == DateOrdinal(forecastDays[Len(forecastDays)].date)
        tripForecast == SelectSeq(forecastDays,
                          LAMBDA d : InTrip(DateOrdinal(d.date), tripStartDate, tripEndDate))
    IN <<Line("yourTrip", startDate.s \o <<" ", "t", "o", " ">> \o endDate.s, 0)>> \o
       (IF Len(forecastDays) > 0
        THEN IF tripStartDate <= forecastEndDate /\ tripEndDate >= forecastStartDate
             THEN <<Line("haveForecastData", <<>>, 0)>> \o
                  (IF Len(tripForecast) > 0
                   THEN <<Line("weatherDuringVisit", <<>>, 0)>> \o DayLines("tripDay", tripForecast)
                   ELSE <<Line("outsideForecastWindow", <<>>, 0)>>)
             ELSE <<Line("outsideForecastWindow", <<>>, 0)>>
        ELSE <<>>)

\* the response text of planParkVisit, from `let response` to the return; only
\* the alert lines can throw
PlanResponse(thePark, alertList, forecastDays, ranked, startDate, endDate) ==
  Then(Then(Plain(<<Line("title", thePark.name.s, 0)>>), PlanAlerts(alertList)),
       Plain(ForecastSection("weatherOutlook", forecastDays) \o Recommended(ranked)
             \o PlanningTips(thePark) \o TripSection(forecastDays, startDate, endDate)))

First3(list) == SubSeq(list, 1, IF Len(list) < 3 THEN Len(list) ELSE 3)
First5(list) == SubSeq(list, 1, IF Len(list) < 5 THEN Len(list) ELSE 5)

\* "Current Alerts (n)"
OverviewAlerts(alertList) ==
  Then(Plain(<<Line("currentAlerts", <<>>, Len(alertList))>>),
       IF Len(alertList) = 0 THEN Plain(<<Line("noCurrentAlerts", <<>>, 0)>>)
       ELSE Then(AlertItems(First3(alertList)),
                 Plain(IF Len(alertList) > 3 THEN <<Line("plusMoreAlerts", <<>>, Len(alertList) - 3)>>
                       ELSE <<>>)))

\* "Upcoming Events (n)"
OverviewEvents(eventList) ==
  <<Line("upcomingEvents", <<>>, Len(eventList))>> \o
  (IF Len(eventList) = 0 THEN <<Line("noUpcomingEvents", <<>>, 0)>>
   ELSE [i \in DOMAIN First5(eventList) |-> Line("eventItem", eventList[i].title, i)] \o
        (IF Len(eventList) > 5 THEN <<Line("plusMoreEvents", <<>>, Len(eventList) - 5)>> ELSE <<>>))

\* "Camping Options (n)"
OverviewCampgrounds(campgroundList) ==
  <<Line("campingOptions", <<>>, Len(campgroundList))>> \o
  (IF Len(campgroundList) = 0 THEN <<Line("noCampgrounds", <<>>, 0)>>
   ELSE [i \in DOMAIN First3(campgroundList) |->
           Line("campgroundItem", campgroundList[i].name,
                IF Truthy(campgroundList[i].totalSites) THEN campgroundList[i].totalSites.n ELSE 0)] \o
        (IF Len(campgroundList) > 3 THEN <<Line("plusMoreCampgrounds", <<>>, Len(campgroundList) - 3)>>
         ELSE <<>>))

\* the response text of getParkOverview, from `let response` to the return;
\* only the alert lines can throw
OverviewResponse(thePark, alertList, forecastDays, eventList, campgroundList) ==
  Then(Then(Plain(<<Line("title", thePark.name.s, 0), Line("about", <<>>, 0)>> \o
                  (IF Truthy(thePark.latitude) /\ Truthy(thePark.longitude)
                   THEN <<Line("location", <<>>, thePark.latitude.n)>> ELSE <<>>)),
            OverviewAlerts(alertList)),
       Plain(ForecastSection("weatherForecast", forecastDays) \o OverviewEvents(eventList)
             \o OverviewCampgrounds(campgroundList)))

----------------------------------------------------------------------------
(* planParkVisit and getParkOverview: the state machine *)

Tools == {"planParkVisit", "getParkOverview"}

ServiceCall(source, ok) == [source |-> source, ok |-> ok]

\* the catch returning what had been composed so far ahead of the message
CatchReplyPartial(composed) == [kind |-> "error", lines |-> composed]

\* `catch (error) { return { content: [{ type: "text", text: "Error ..." }] } }`:
\* `response` is out of scope, the message is all that is returned
CatchReply(composed) == [kind |-> "error", lines |-> <<>>]

\* the handler ends in its catch
Caught(composed) ==
  /\ step' = "done"
  /\ reply' = CatchReply(composed)

\* the handler ends with the composed text, or in its catch when the
\* composition threw
ReturnResponse(composition) ==
  IF composition.threw THEN Caught(composition.lines)
  ELSE /\ step' = "done"
       /\ reply' = [kind |-> "report", lines |-> composition.lines]

\* a report tool is called
ReportCall ==
  /\ step = "idle"
  /\ \E t \in Tools, code \in ReportParkCodes, w \in Windows :
       /\ t = "getParkOverview" => w = NoWindow
       /\ tool' = t
       /\ args' = [parkCode |-> code, startDate |-> w.startDate, endDate |-> w.endDate]
  /\ step' = "park"
  /\ UNCHANGED <<park, alerts, forecast, detailedForecast, events, campgrounds,
                 goodWeatherDays, reply, fetched, trailVars, mapVars, scoreVars, authVars>>

\* npsService.getParkById answers: the request throws, or mapParkResponse
\* throws on `resp.data[0]` of an empty list, or the park is returned (an
\* object, so `if (!park)` does not hold)
GetParkById ==
  /\ step = "park"
  /\ \E resp \in ParkResponses(args.parkCode) :
       /\ fetched' = Append(fetched, ServiceCall("park", resp.ok))
       /\ IF ~resp.ok \/ Len(resp.data) = 0
          THEN Caught(<<>>) /\ UNCHANGED park
          ELSE /\ park' = resp.data[1]
               /\ step' = "alerts"
               /\ UNCHANGED reply
  /\ UNCHANGED <<tool, args, alerts, forecast, detailedForecast, events, campgrounds,
                 goodWeatherDays, trailVars, mapVars, scoreVars, authVars>>

\* npsService.getAlertsByPark answers or throws
GetAlertsByPark ==
  /\ step = "alerts"
  /\ \E resp \in AlertResponses :
       /\ fetched' = Append(fetched, ServiceCall("alerts", resp.ok))
       /\ IF ~resp.ok
          THEN Caught(<<>>) /\ UNCHANGED alerts
          ELSE /\ alerts' = resp.data
               /\ step' = "forecast"
               /\ UNCHANGED reply
  /\ UNCHANGED <<tool, args, park, forecast, detailedForecast, events, campgrounds,
                 goodWeatherDays, trailVars, mapVars, scoreVars, authVars>>

\* weatherService.get7DayForecastByLocation answers or throws
Get7DayForecast ==
  /\ step = "forecast"
  /\ \E resp \in ForecastResponses :
       /\ fetched' = Append(fetched, ServiceCall("forecast", resp.ok))
       /\ IF ~resp.ok
          THEN Caught(<<>>) /\ UNCHANGED forecast
          ELSE /\ forecast' = resp.data
               /\ step' = IF tool = "planParkVisit" THEN "detailed" ELSE "events"
               /\ UNCHANGED reply
  /\ UNCHANGED <<tool, args, park, alerts, detailedForecast, events, campgrounds,
                 goodWeatherDays, trailVars, mapVars, scoreVars, authVars>>

\* planParkVisit: weatherService.getDetailedForecast answers or throws; on an
\* answer the days are scored and sorted, the text is composed and returned
GetDetailedForecast ==
  /\ step = "detailed"
  /\ \E resp \in DetailedResponses :
       /\ fetched' = Append(fetched, ServiceCall("detailed", resp.ok))
       /\ IF ~resp.ok
          THEN Caught(<<>>) /\ UNCHANGED <<detailedForecast, goodWeatherDays>>
          ELSE /\ detailedForecast' = resp.data
               /\ \E pushed \in {ScoreAll(resp.data)} :
                    goodWeatherDays' = SortByScore(pushed)
               /\ \E response \in {PlanResponse(park, alerts, forecast, goodWeatherDays',
                                                 args.startDate, args.endDate)} :
                    ReturnResponse(response)
  /\ UNCHANGED <<tool, args, park, alerts, forecast, events, campgrounds,
                 trailVars, mapVars, scoreVars, authVars>>

\* getParkOverview: npsService.getEventsByPark answers or throws
GetEventsByPark ==
  /\ step = "events"
  /\ \E resp \in EventResponses :
       /\ fetched' = Append(fetched, ServiceCall("events", resp.ok))
       /\ IF ~resp.ok
          THEN Caught(<<>>) /\ UNCHANGED events
          ELSE /\ events' = resp.data
               /\ step' = "campgrounds"
               /\ UNCHANGED reply
  /\ UNCHANGED <<tool, args, park, alerts, forecast, detailedForecast, campgrounds,
                 goodWeatherDays, trailVars, mapVars, scoreVars, authVars>>

\* getParkOverview: npsService.getCampgroundsByPark answers or throws; on an
\* answer the text is composed and returned
GetCampgroundsByPark ==
  /\ step = "campgrounds"
  /\ \E resp \in CampgroundResponses :
       /\ fetched' = Append(fetched, ServiceCall("campgrounds", resp.ok))
       /\ IF ~resp.ok
          THEN Caught(<<>>) /\ UNCHANGED campgrounds
          ELSE /\ campgrounds' = resp.data
               /\ \E response \in {OverviewResponse(park, alerts, forecast, events, resp.data)} :
                    ReturnResponse(response)
  /\ UNCHANGED <<tool, args, park, alerts, forecast, detailedForecast, events,
                 goodWeatherDays, trailVars, mapVars, scoreVars, authVars>>

NextReport ==
  \/ ReportCall
  \/ GetParkById
  \/ GetAlertsByPark
  \/ Get7DayForecast
  \/ GetDetailedForecast
  \/ GetEventsByPark
  \/ GetCampgroundsByPark

SpecReport == Init /\ [][NextReport]_vars

----------------------------------------------------------------------------
(* GitHubHandler /callback and fetchUpstreamAuthToken *)

\* the state parameter: the AuthRequest that /authorize encoded, or text that
\* atob or JSON.parse throws on
AuthStates ==
  {NoAuthRequest} \cup
  {[valid |-> TRUE, clientId |-> c, scope |-> s] : c \in {"client-1", "client-2"},
                                                    s \in {"read", "read write"}}

\* the code parameter: absent or given
AuthCodes == {Undef, Str(<<"c", "0", "d", "e">>)}

\* what the token endpoint does: fetch throws, or an answer with a status whose
\* body is form data (with or without access_token) or is none
TokenAnswer(threw, status, form, token) ==
  [threw |-> threw, ok |-> (~threw /\ status \in 200..299), status |-> status,
   form |-> form, access_token |-> token]
TokenResponses ==
  {TokenAnswer(TRUE, 0, FALSE, Null),
   TokenAnswer(FALSE, 401, TRUE, Null), TokenAnswer(FALSE, 503, FALSE, Null),
   TokenAnswer(FALSE, 404, TRUE, Str(<<"g", "h", "o", "_", "a">>)),
   TokenAnswer(FALSE, 200, FALSE, Null), TokenAnswer(FALSE, 200, TRUE, Null),
   TokenAnswer(FALSE, 200, TRUE, Str(<<>>)),
   TokenAnswer(FALSE, 200, TRUE, Str(<<"g", "h", "o", "_", "a">>)), TokenAnswer(FALSE, 201, TRUE, Str(<<"g", "h", "o", "_", "b">>))}

\* new Response(body, { status })
Response(body, status) == [kind |-> "response", status |-> status, body |-> body]
Rejected == [kind |-> "rejected", status |-> 0, body |-> ""]

\* fetchUpstreamAuthToken with the token returned whatever it is
fetchUpstreamAuthTokenUnchecked(resp) ==
  IF resp.threw THEN [returned |-> FALSE, token |-> Null, err |-> Null]
  ELSE IF ~resp.ok
       THEN [returned |-> TRUE, token |-> Null, err |-> Response("Token exchange failed", 500)]
  ELSE IF ~resp.form THEN [returned |-> FALSE, token |-> Null, err |-> Null]
  ELSE [returned |-> TRUE, token |-> resp.access_token, err |-> Null]

\* fetchUpstreamAuthToken: the pair it resolves with, or a rejection when
\* fetch or resp.formData() throws
fetchUpstreamAuthToken(resp) ==
  IF resp.threw THEN [returned |-> FALSE, token |-> Null, err |-> Null]
  ELSE IF ~resp.ok
       THEN [returned |-> TRUE, token |-> Null, err |-> Response("Token exchange failed", 500)]
  ELSE IF ~resp.form THEN [returned |-> FALSE, token |-> Null, err |-> Null]
  ELSE IF Truthy(resp.access_token)
       THEN [returned |-> TRUE, token |-> resp.access_token, err |-> Null]
       ELSE [returned |-> TRUE, token |-> Null, err |-> Response("No access_token", 400)]

\* what users.getAuthenticated answers with; name and email may be null
UserResponses ==
  {[ok |-> FALSE, data |-> NoUser],
   [ok |-> TRUE, data |-> [login |-> Str(<<"a", "n", "n">>), name |-> Str(<<"A", "n", "n">>), email |-> Str(<<"a">>)]],
   [ok |-> TRUE, data |-> [login |-> Str(<<"b", "o", "b">>), name |-> Null, email |-> Null]]}

\* an outward call of the callback
AuthCall(call, token) == [call |-> call, token |-> token]

\* the handler stops: it returned a response or rejected
AuthDone(response) == authPc' = "done" /\ authReply' = response

\* GET /callback: the state is decoded; `c.req.query("code") || ""`
Callback ==
  /\ authPc = "idle"
  /\ \E state \in AuthStates, code \in AuthCodes :
       /\ authArgs' = [state |-> state, code |-> code]
       /\ IF ~state.valid
          THEN AuthDone(Rejected) /\ UNCHANGED oauthReqInfo
          ELSE authPc' = "token" /\ oauthReqInfo' = state /\ UNCHANGED authReply
  /\ UNCHANGED <<upstream, tokenResult, user, authLog, trailVars, mapVars, scoreVars, reportVars>>

\* `await fetchUpstreamAuthToken(...)` and `if (err) return err`
ExchangeToken ==
  /\ authPc = "token"
  /\ \E resp \in TokenResponses :
       LET pair == fetchUpstreamAuthToken(resp)
       IN /\ upstream' = resp
          /\ tokenResult' = pair
          /\ authLog' = Append(authLog, AuthCall("fetchToken", Null))
          /\ IF ~pair.returned THEN AuthDone(Rejected)
             ELSE IF pair.err # Null THEN AuthDone(pair.err)
             ELSE authPc' = "user" /\ UNCHANGED authReply
  /\ UNCHANGED <<authArgs, oauthReqInfo, user, trailVars, mapVars, scoreVars, reportVars>>

\* `await new Octokit({ auth: accessToken }).rest.users.getAuthenticated()`
GetAuthenticated ==
  /\ authPc = "user"
  /\ \E resp \in UserResponses :
       /\ authLog' = Append(authLog, AuthCall("getAuthenticated", tokenResult.token))
       /\ IF ~resp.ok
          THEN AuthDone(Rejected) /\ UNCHANGED user
          ELSE authPc' = "complete" /\ user' = resp.data /\ UNCHANGED authReply
  /\ UNCHANGED <<authArgs, oauthReqInfo, upstream, tokenResult, trailVars, mapVars,
                 scoreVars, reportVars>>

\* `await c.env.OAUTH_PROVIDER.completeAuthorization(...)` and the redirect
CompleteAuthorization ==
  /\ authPc = "complete"
  /\ \E completed \in BOOLEAN :
       /\ authLog' = Append(authLog, AuthCall("completeAuthorization", tokenResult.token))
       /\ AuthDone(IF completed THEN [kind |-> "redirect", status |-> 302, body |-> "redirectTo"]
                   ELSE Rejected)
  /\ UNCHANGED <<authArgs, oauthReqInfo, upstream, tokenResult, user, trailVars, mapVars,
                 scoreVars, reportVars>>

NextAuth == Callback \/ ExchangeToken \/ GetAuthenticated \/ CompleteAuthorization

SpecAuth == Init /\ [][NextAuth]_vars

----------------------------------------------------------------------------
(* The claims *)

\* the requests of one kind in the log, in the order they were issued
CallsOf(kind) == SelectSeq(calls, LAMBDA c : c.kind = kind)
FailedCallOf(kind) == \E i \in DOMAIN calls : calls[i].kind = kind /\ ~calls[i].ok
\* the detail loop ran over every candidate
LoopCompleted == pc = "done" /\ trails # <<>> /\ next > Len(trails)

\* C1: for a park code of the static code-to-id table, parkToRecAreaId returns
\* the mapped id and no area-search request is ever issued, whatever the
\* other requests of the call do.
C1_KnownCodeResolvesWithoutNetwork ==
  (pc # "idle" /\ parkCode \in DOMAIN knownMappings) =>
    /\ resolved.done
    /\ resolved.value = knownMappings[parkCode]
    /\ CallsOf("areaSearch") = <<>>

\* a call for "acad" resolved to 2674 and then met a failing network
C1_Witness ==
  /\ pc = "done" /\ parkCode = "acad"
  /\ resolved = [done |-> TRUE, value |-> Num(2674)]
  /\ FailedCallOf("facilities")

\* C2: for a park code that is a key of neither static table, parkToRecAreaId
\* returns null and no request is issued.
C2_AbsentCodeIsNotFound ==
  (pc # "idle" /\ parkCode \notin DOMAIN knownMappings /\ parkCode \notin DOMAIN parkMap) =>
    /\ resolved = [done |-> TRUE, value |-> Null]
    /\ calls = <<>>

\* C3: a failed area search is told apart from NotFound: the resolver does not
\* answer null for it, and getTrailsByPark does not return an empty list.
C3_SearchFailureIsNotNotFound ==
  FailedCallOf("areaSearch") =>
    /\ ~(resolved.done /\ resolved.value = Null)
    /\ ~(outcome = "returned" /\ result = <<>>)

\* C4: when the facility-list request fails, getTrailsByPark rejects: nothing
\* is returned and no detail (or fallback) request is issued.
C4_FacilityFailurePropagates ==
  FailedCallOf("facilities") =>
    /\ pc = "done" /\ outcome = "threw" /\ result = <<>>
    /\ CallsOf("detail") = <<>>
    /\ CallsOf("fallback") = <<>>

\* the facility-list request failed and the call rejected
C4_Witness ==
  /\ FailedCallOf("facilities") /\ outcome = "threw"
  /\ parkCode = "arch" /\ Len(calls) = 2

\* C5: with no filter, once the detail loop ran over its n candidates the call
\* returns n trails in candidate order, one detail request was issued per
\* candidate, and a candidate whose detail request failed comes with its id
\* and name and without length, difficulty, elevation gain and surface.
C5_EveryCandidateReturned ==
  (LoopCompleted /\ ~query.given) =>
    /\ outcome = "returned"
    /\ Len(result) = Len(trails)
    /\ Len(CallsOf("detail")) = Len(trails)
    /\ \A i \in DOMAIN trails :
         /\ result[i].id = NumToStr(trails[i].FacilityID)
         /\ result[i].name = trails[i].FacilityName
         /\ ~CallsOf("detail")[i].ok =>
              /\ result[i].length = Undef
              /\ result[i].difficulty = Undef
              /\ result[i].elevationGain = Undef
              /\ result[i].surfaceType = Undef

RECURSIVE IsSubSeq(_, _)
\* a is b with some members left out
IsSubSeq(a, b) ==
  IF a = <<>> THEN TRUE
  ELSE IF b = <<>> THEN FALSE
  ELSE IF Head(a) = Head(b) THEN IsSubSeq(Tail(a), Tail(b))
  ELSE IsSubSeq(a, Tail(b))

\* C6: a call that returns gives at most as many trails as there were trail
\* candidates, each the trail of one candidate, in candidate order, and none
\* twice.
C6_ResultWithinCandidates ==
  outcome = "returned" =>
    /\ Len(result) <= Len(trails)
    /\ IsSubSeq([i \in DOMAIN result |-> result[i].id],
                [i \in DOMAIN trails |-> NumToStr(trails[i].FacilityID)])
    /\ \A i, j \in DOMAIN result : result[i].id = result[j].id => i = j

\* a filtered call with a failed detail request returned some candidates only
C6_Witness ==
  /\ outcome = "returned" /\ query.given
  /\ FailedCallOf("detail")
  /\ Len(result) > 0 /\ Len(result) < Len(trails)

\* C7: every returned trail carries the scalar of each supplied criterion and
\* meets it: length >= minLength (0 included), length <= maxLength, difficulty
\* containing the substring whatever the case, id equal to trailId.
C7_ReturnedTrailsMeetTheFilter ==
  outcome = "returned" =>
    \A i \in DOMAIN result :
      /\ query.minLength.t = "number" =>
           result[i].length.t = "number" /\ result[i].length.n >= query.minLength.n
      /\ query.maxLength.t = "number" =>
           result[i].length.t = "number" /\ result[i].length.n <= query.maxLength.n
      /\ query.difficulty.t = "string" =>
           /\ result[i].difficulty.t = "string"
           /\ includes(toLowerCase(result[i].difficulty.s), toLowerCase(query.difficulty.s))
      /\ query.trailId.t = "string" => Str(result[i].id) = query.trailId

\* C8: mapTrailResponse returns a Trail for every attribute container: absent,
\* a flat list, or an object holding an ATTRIBUTES list.
C8_DecodingNeverRaises == mapOut.status # "threw"

\* the text of the first attribute of mapIn named name, when there is one
RawText(name) ==
  LET hits == {i \in DOMAIN mapIn.Attributes.list :
                 mapIn.Attributes.list[i].AttributeName = Str(name)}
  IN IF hits = {} THEN Undef ELSE mapIn.Attributes.list[First(hits)].AttributeValue

\* the number a text is when it is one, absent otherwise: the "4.5" of a flat
\* list is 45 tenths, "abc" is absent
DecodedNumber(text) ==
  IF text.t = "string" /\ text.s # <<>> /\ parseFloat(text.s).t = "number"
  THEN parseFloat(text.s)
  ELSE Undef

\* C9: for a flat list, length and elevationGain are the parsed number when
\* the text is numeric and absent (undefined, never NaN) when it is not.
C9_UnparsableNumberIsAbsent ==
  (mapOut.status = "returned" /\ mapIn.Attributes.shape = "flat") =>
    /\ mapOut.trail.length = DecodedNumber(RawText(TrailLength))
    /\ mapOut.trail.elevationGain = DecodedNumber(RawText(ElevationGain))

\* the claim's three terms, read off (min + max) / 2, the chance of rain and
\* the condition text
C10_Between(d, lo, hi) ==
  2 * lo <= d.minTempF + d.maxTempF /\ d.minTempF + d.maxTempF <= 2 * hi
C10_TemperatureTerm(d) ==
  IF C10_Between(d, 65, 80) THEN 3 ELSE IF C10_Between(d, 50, 85) THEN 2 ELSE 1
C10_PrecipitationTerm(d) ==
  CASE d.chanceOfRain < 20 -> 3
    [] d.chanceOfRain >= 20 /\ d.chanceOfRain < 40 -> 2
    [] d.chanceOfRain >= 40 /\ d.chanceOfRain < 60 -> 1
    [] OTHER -> 0
C10_ConditionBonus(d) ==
  LET text == toLowerCase(d.condition)
  IN IF includes(text, <<"s", "u", "n", "n", "y">>) \/ includes(text, <<"c", "l", "e", "a", "r">>)
        \/ includes(text, <<"p", "a", "r", "t", "l", "y", " ", "c", "l", "o", "u", "d", "y">>)
     THEN 2 ELSE 0

\* C10: the score of a day is temperatureTerm + precipitationTerm +
\* conditionBonus, an integer of 0..8; average 70, rain 10, "Sunny" scores 8
\* and average 95, rain 80, "Stormy" scores 1.
C10_ScoreIsTheSumOfTheTerms ==
  scored.done =>
    /\ scored.score =
         C10_TemperatureTerm(day) + C10_PrecipitationTerm(day) + C10_ConditionBonus(day)
    /\ scored.score \in 0..8
    /\ (day.minTempF + day.maxTempF = 140 /\ day.chanceOfRain = 10
        /\ day.condition = <<"S", "u", "n", "n", "y">>) => scored.score = 8
    /\ (day.minTempF + day.maxTempF = 190 /\ day.chanceOfRain = 80
        /\ day.condition = <<"S", "t", "o", "r", "m", "y">>) => scored.score = 1

\* the day of average 70, rain 10, "Sunny" was scored 8
C10_Witness ==
  /\ scored = [done |-> TRUE, score |-> 8]
  /\ day = [minTempF |-> 60, maxTempF |-> 80, chanceOfRain |-> 10,
            condition |-> <<"S", "u", "n", "n", "y">>]


\* C15: once the caller's cancellation signal has fired, the detail loop issues
\* no further detail request: the answer of the request in flight ends the
\* call (stated for the park codes of the static table).
C15_NoDetailRequestAfterCancel ==
  [][(cancelled /\ pc = "detail" /\ parkCode \in DOMAIN knownMappings) => pc' = "done"]_vars

\* the area search of parkToRecAreaId was answered and the resolver returned
SearchAnswered ==
  /\ resolved.done
  /\ Len(CallsOf("areaSearch")) = 1
  /\ CallsOf("areaSearch")[1].ok
\* the display name of the park code, lower-cased
DisplayName == toLowerCase(getParkNameFromCode(parkCode).s)
AreaName(i) == toLowerCase(areas[i].RecAreaName)
\* rule i, rule ii and rule iii of the tie-break chain, as sets of positions
RuleEqual == {i \in DOMAIN areas : AreaName(i) = DisplayName}
RuleNational == {i \in DOMAIN areas : includes(AreaName(i), DisplayName \o <<" ", "n", "a", "t", "i", "o", "n", "a", "l", " ", "p", "a", "r", "k">>)}
RuleSubstring == {i \in DOMAIN areas : includes(AreaName(i), DisplayName)}
WinnerIn(S) == \E i \in S : resolved.value = Num(areas[i].RecAreaID)
WinnerAt(i) == resolved.value = Num(areas[i].RecAreaID)

\* C16: the winning candidate comes from the first rule of the chain that any
\* candidate matches, whatever the candidates' positions: equality with the
\* display name, then "<display name> national park", then substring.
C16_FirstMatchingRuleWins ==
  (SearchAnswered /\ areas # <<>>) =>
     /\ RuleEqual # {} => WinnerIn(RuleEqual)
     /\ (RuleEqual = {} /\ RuleNational # {}) => WinnerIn(RuleNational)
     /\ (RuleEqual = {} /\ RuleNational = {} /\ RuleSubstring # {}) => WinnerIn(RuleSubstring)

\* C16, amended: equality and "<display name> national park" are one tier; the
\* earliest candidate of the search result matching either wins, and only when
\* there is none the earliest candidate containing the display name wins.
C16_EqualityAndNationalAreOneTier ==
  (SearchAnswered /\ areas # <<>>) =>
     /\ \A i \in RuleEqual \cup RuleNational :
          (\A j \in RuleEqual \cup RuleNational : i <= j) => WinnerAt(i)
     /\ (RuleEqual \cup RuleNational = {}) =>
          \A i \in RuleSubstring : (\A j \in RuleSubstring : i <= j) => WinnerAt(i)

\* a "national park" candidate ahead of an equal-named one won
C16_Witness ==
  /\ SearchAnswered
  /\ \E i \in RuleNational \ RuleEqual, j \in RuleEqual : i < j /\ WinnerAt(i)

\* C17: after an answered area search the resolver returns null exactly when
\* the search held no candidate; otherwise it returns the id of a returned
\* candidate, the first one's when no candidate matches rules i-iii.
C17_NotFoundOnlyWithoutCandidates ==
  SearchAnswered =>
     /\ resolved.value = Null <=> areas = <<>>
     /\ areas # <<>> => WinnerIn(DOMAIN areas)
     /\ (areas # <<>> /\ RuleEqual \cup RuleNational \cup RuleSubstring = {}) => WinnerAt(1)

\* two candidates, neither matching any rule: the first one's id was returned
C17_Witness ==
  /\ SearchAnswered
  /\ Len(areas) >= 2
  /\ RuleEqual \cup RuleNational \cup RuleSubstring = {}
  /\ WinnerAt(1)
  /\ ~WinnerAt(2)


\* the facility list of the area was answered
FacilitiesAnswered ==
  /\ Len(CallsOf("facilities")) = 1
  /\ CallsOf("facilities")[1].ok
\* the trail candidates of the facility list
ListCandidates == SelectSeq(facilityList, isTrailFacility)
\* fallback searches issued so far: the pending one and the answered ones
FallbackSearches == Len(CallsOf("fallback")) + (IF pc = "fallback" THEN 1 ELSE 0)
FallbackAnswered == Len(CallsOf("fallback")) = 1 /\ CallsOf("fallback")[1].ok
HasDisplayName == parkCode \in DOMAIN parkMap
FallbackIsForDisplayName ==
  \A i \in DOMAIN calls :
     calls[i].kind = "fallback" => calls[i].key = parkMap[parkCode]

\* C18: a facility list with no trail candidate, empty or not, of a park with
\* a display name is followed by exactly one fallback search whose results go
\* through the same selection; a list with a candidate is followed by none.
C18_FallbackWheneverNoCandidate ==
  FacilitiesAnswered =>
     /\ (ListCandidates = <<>> /\ HasDisplayName) =>
           /\ FallbackSearches = 1
           /\ FallbackIsForDisplayName
           /\ FallbackAnswered => trails = SelectSeq(searchList, isTrailFacility)
     /\ ListCandidates # <<>> => FallbackSearches = 0

\* C18, amended: the fallback search is issued, once, only for a non-empty
\* facility list without trail candidate; an empty list ends the call with an
\* empty result and no further request.
C18_FallbackOnlyForNonEmptyList ==
  FacilitiesAnswered =>
     /\ (facilityList # <<>> /\ ListCandidates = <<>> /\ HasDisplayName) =>
           /\ FallbackSearches = 1
           /\ FallbackIsForDisplayName
           /\ FallbackAnswered => trails = SelectSeq(searchList, isTrailFacility)
     /\ ListCandidates # <<>> => FallbackSearches = 0
     /\ facilityList = <<>> =>
           /\ FallbackSearches = 0
           /\ pc = "done" /\ outcome = "returned" /\ result = <<>>
           /\ calls[Len(calls)].kind = "facilities"

\* a list of non-trail facilities only, and a fallback search that found trails
C18_Witness ==
  /\ FacilitiesAnswered
  /\ facilityList # <<>> /\ ListCandidates = <<>>
  /\ HasDisplayName
  /\ FallbackAnswered
  /\ trails # <<>>
  /\ pc = "done"

\* C19: once the facility list has been answered the call never rejects,
\* whatever the fallback search and the detail requests do (stated for the
\* park codes that have a display name).
C19_NoRejectionAfterFacilityList ==
  (FacilitiesAnswered /\ HasDisplayName /\ pc = "done") => outcome = "returned"

\* the list the trail candidates were selected from
SelectedFrom == IF CallsOf("fallback") # <<>> THEN searchList ELSE facilityList
TextOf(v) == IF v.t = "string" THEN v.s ELSE <<>>
MentionsTrail(v) == includes(toLowerCase(TextOf(v)), <<"t", "r", "a", "i", "l">>)

\* C20: the candidates are exactly the facilities whose type descriptor or name
\* contains "trail", whatever the case of the letters (stated for the park
\* codes that have a display name).
C20_TypeOrNameMentionsTrail ==
  (FacilitiesAnswered /\ HasDisplayName) =>
     trails = SelectSeq(SelectedFrom,
                LAMBDA f : MentionsTrail(f.FacilityTypeDescription) \/ MentionsTrail(f.FacilityName))

\* C20, amended: the candidates are exactly the facilities whose type
\* descriptor is "Trail" to the letter or whose name contains "trail", whatever
\* the case of the letters.
C20_TypeIsTrailOrNameMentionsTrail ==
  FacilitiesAnswered =>
     trails = SelectSeq(SelectedFrom,
                LAMBDA f : TextOf(f.FacilityTypeDescription) = <<"T", "r", "a", "i", "l">> \/ MentionsTrail(f.FacilityName))

\* a facility of type "Trail" with no trail in its name was selected, one of
\* type "trail" was not
C20_Witness ==
  /\ FacilitiesAnswered
  /\ \E i \in DOMAIN trails :
        /\ TextOf(trails[i].FacilityTypeDescription) = <<"T", "r", "a", "i", "l">>
        /\ ~MentionsTrail(trails[i].FacilityName)
  /\ \E i \in DOMAIN SelectedFrom :
        /\ MentionsTrail(SelectedFrom[i].FacilityTypeDescription)
        /\ \A j \in DOMAIN trails : trails[j].FacilityID # SelectedFrom[i].FacilityID


\* planParkVisit has returned
PlanDone == tool = "planParkVisit" /\ step = "done"
FetchOk(source) == \E i \in DOMAIN fetched : fetched[i].source = source /\ fetched[i].ok
FetchThrew(source) == \E i \in DOMAIN fetched : fetched[i].source = source /\ ~fetched[i].ok
\* the lines of one kind in the returned text, and what they name
LinesOf(kind) == SelectSeq(reply.lines, LAMBDA l : l.k = kind)
NamedBy(kind) == [i \in DOMAIN LinesOf(kind) |-> LinesOf(kind)[i].v]
DatesOfDays(days) == [i \in DOMAIN days |-> days[i].date]
\* the position of a date in the detailed forecast
InputPosition(date) == CHOOSE i \in DOMAIN detailedForecast : detailedForecast[i].date = date

\* C11: the ranked days are the scored days of the detailed forecast in
\* non-increasing order of score, days of equal score in the order of the
\* forecast.
C11_RankingIsSortedAndStable ==
  (PlanDone /\ FetchOk("detailed")) =>
     /\ Len(goodWeatherDays) = Len(detailedForecast)
     /\ \A i \in DOMAIN detailedForecast :
           \E k \in DOMAIN goodWeatherDays :
              /\ goodWeatherDays[k].date = detailedForecast[i].date
              /\ goodWeatherDays[k].score = DayScore(detailedForecast[i])
     /\ \A k, l \in DOMAIN goodWeatherDays :
           k < l =>
              /\ goodWeatherDays[k].score >= goodWeatherDays[l].score
              /\ goodWeatherDays[k].score = goodWeatherDays[l].score =>
                    InputPosition(goodWeatherDays[k].date) < InputPosition(goodWeatherDays[l].date)

\* a ranking that moved a later day ahead of two days of equal score
C11_Witness ==
  /\ PlanDone /\ FetchOk("detailed")
  /\ \E k, l \in DOMAIN goodWeatherDays :
        /\ k < l
        /\ goodWeatherDays[k].score = goodWeatherDays[l].score
        /\ \E m \in DOMAIN goodWeatherDays :
              /\ m < k
              /\ goodWeatherDays[m].score > goodWeatherDays[k].score
              /\ InputPosition(goodWeatherDays[m].date) > InputPosition(goodWeatherDays[l].date)

\* planParkVisit returned its report for a trip window and a forecast
TripCase ==
  /\ PlanDone
  /\ reply.kind = "report"
  /\ args.startDate.t = "string" /\ args.endDate.t = "string"
  /\ forecast # <<>>
TripStart == DateOrdinal(args.startDate.s)
TripEnd == DateOrdinal(args.endDate.s)
WithinWindow ==
  SelectSeq(forecast, LAMBDA d : TripStart <= DateOrdinal(d.date) /\ DateOrdinal(d.date) <= TripEnd)
WindowsOverlap ==
  /\ TripStart <= DateOrdinal(forecast[Len(forecast)].date)
  /\ TripEnd >= DateOrdinal(forecast[1].date)
SliceShown == LinesOf("weatherDuringVisit") # <<>>
OutsideShown == LinesOf("outsideForecastWindow") # <<>>

\* C12: the trip slice is shown exactly when the window overlaps the span of
\* the forecast; it is the forecast days inside the window, in order; otherwise
\* the outside-window statement is shown; never both.
C12_SliceIffWindowsOverlap ==
  TripCase =>
     /\ SliceShown <=> WindowsOverlap
     /\ SliceShown => NamedBy("tripDay") = DatesOfDays(WithinWindow)
     /\ ~SliceShown => OutsideShown
     /\ ~(SliceShown /\ OutsideShown)

\* C12, amended: the trip slice is shown exactly when some forecast day lies
\* inside the window; it is those days, in order; otherwise the outside-window
\* statement is shown, once; never both.
C12_SliceIffSomeDayInWindow ==
  TripCase =>
     /\ SliceShown <=> WithinWindow # <<>>
     /\ SliceShown => NamedBy("tripDay") = DatesOfDays(WithinWindow)
     /\ ~SliceShown => Len(LinesOf("outsideForecastWindow")) = 1 /\ LinesOf("tripDay") = <<>>
     /\ ~(SliceShown /\ OutsideShown)

\* a window that starts ahead of the forecast and ends inside it: the slice is
\* a proper part of the forecast
C12_Witness ==
  /\ TripCase
  /\ SliceShown
  /\ TripStart < DateOrdinal(forecast[1].date)
  /\ Len(LinesOf("tripDay")) >= 2
  /\ Len(LinesOf("tripDay")) < Len(forecast)

\* C13: with the park found, a failed fetch of alerts, events or campgrounds
\* still ends in a report.
C13_SubsourceFailureKeepsTheReport ==
  (step = "done" /\ FetchOk("park")
     /\ (FetchThrew("alerts") \/ FetchThrew("events") \/ FetchThrew("campgrounds")))
  => reply.kind = "report"

HeadingKinds ==
  {"title", "about", "importantAlerts", "currentAlerts", "weatherOutlook", "weatherForecast",
   "recommendedDays", "planningTips", "yourTrip", "upcomingEvents", "campingOptions"}
\* the headings of the returned text, in order
Headings ==
  LET heads == SelectSeq(reply.lines, LAMBDA l : l.k \in HeadingKinds)
  IN [i \in DOMAIN heads |-> heads[i].k]
AtMost(n, list) == IF Len(list) < n THEN Len(list) ELSE n
\* every section the data call for is in the text, with every line of it
PlanReportIsWhole ==
  LET closures == SelectSeq(alerts, IsClosureAlert)
  IN /\ Headings = <<"title">>
                   \o (IF closures # <<>> THEN <<"importantAlerts">> ELSE <<>>)
                   \o <<"weatherOutlook">>
                   \o (IF detailedForecast # <<>> THEN <<"recommendedDays">> ELSE <<>>)
                   \o <<"planningTips">>
                   \o (IF Truthy(args.startDate) /\ Truthy(args.endDate) THEN <<"yourTrip">> ELSE <<>>)
     /\ Len(LinesOf("alertItem")) = Len(closures)
     /\ Len(LinesOf("forecastDay")) + Len(LinesOf("forecastNotAvailable")) = IF forecast = <<>> THEN 1 ELSE Len(forecast)
     /\ Len(LinesOf("recommendedDay")) = AtMost(3, detailedForecast)
     /\ Len(LinesOf("tip")) = 3
OverviewReportIsWhole ==
  /\ Headings = <<"title", "about", "currentAlerts", "weatherForecast", "upcomingEvents", "campingOptions">>
  /\ Len(LinesOf("alertItem")) + Len(LinesOf("noCurrentAlerts")) = IF alerts = <<>> THEN 1 ELSE AtMost(3, alerts)
  /\ Len(LinesOf("forecastDay")) + Len(LinesOf("forecastNotAvailable")) = IF forecast = <<>> THEN 1 ELSE Len(forecast)
  /\ Len(LinesOf("eventItem")) + Len(LinesOf("noUpcomingEvents")) = IF events = <<>> THEN 1 ELSE AtMost(5, events)
  /\ Len(LinesOf("campgroundItem")) + Len(LinesOf("noCampgrounds")) = IF campgrounds = <<>> THEN 1 ELSE AtMost(3, campgrounds)

\* C14: a report tool returns nothing before its end, and at its end either
\* the whole report (no fetch having failed) or an error message and nothing
\* of the report.
C14_WholeReportOrSingleError ==
  /\ step # "done" => reply = NoReply
  /\ step = "done" =>
       /\ reply.kind \in {"report", "error"}
       /\ reply.kind = "error" => reply.lines = <<>>
       /\ reply.kind = "report" =>
            /\ \A i \in DOMAIN fetched : fetched[i].ok
            /\ tool = "planParkVisit" => PlanReportIsWhole
            /\ tool = "getParkOverview" => OverviewReportIsWhole

\* every fetch answered and the composition threw past the title, on an alert
\* without description: the error message alone was returned
C14_Witness ==
  /\ step = "done"
  /\ \A i \in DOMAIN fetched : fetched[i].ok
  /\ Len(fetched) >= 4
  /\ reply.kind = "error"
  /\ \E i \in DOMAIN alerts : alerts[i].description.t # "string"


\* planParkVisit returned its report
PlanReported == PlanDone /\ reply.kind = "report"
\* the ranked days that made it into the recommendation, and the others
RecommendedCount == AtMost(3, goodWeatherDays)

\* C23: one scored entry per day of the detailed forecast, the ranking a
\* permutation of them; the recommendation is the first min(3, n) ranked days,
\* so no day left out scores higher than a recommended one.
C23_RecommendationIsTheTopOfTheRanking ==
  PlanReported =>
     /\ Len(goodWeatherDays) = Len(detailedForecast)
     /\ \A i \in DOMAIN detailedForecast :
           Cardinality({k \in DOMAIN goodWeatherDays :
                          goodWeatherDays[k] = ScoredDay(detailedForecast[i])}) = 1
     /\ NamedBy("recommendedDay") = [k \in 1..RecommendedCount |-> goodWeatherDays[k].date]
     /\ \A k \in 1..RecommendedCount, l \in DOMAIN goodWeatherDays :
           l > RecommendedCount => goodWeatherDays[l].score <= goodWeatherDays[k].score

\* four days ranked, three recommended, the fourth scoring lower than the third
C23_Witness ==
  /\ PlanReported
  /\ Len(goodWeatherDays) = 4
  /\ Len(LinesOf("recommendedDay")) = 3
  /\ goodWeatherDays[4].score < goodWeatherDays[3].score
  /\ goodWeatherDays # ScoreAll(detailedForecast)

MentionsClosure(text) ==
  includes(toLowerCase(text), <<"c", "l", "o", "s", "u", "r", "e">>) \/ includes(toLowerCase(text), <<"c", "l", "o", "s", "e", "d">>)

\* C24: the alerts listed under "Important Alerts" are those whose title or
\* category contains "closure" or "closed", whatever the case, in the alerts'
\* order.
C24_TitleOrCategoryMentionsClosure ==
  PlanReported =>
     NamedBy("alertItem") =
        LET subset == SelectSeq(alerts, LAMBDA a : MentionsClosure(a.title) \/ MentionsClosure(a.category))
        IN [i \in DOMAIN subset |-> subset[i].title]

\* C24, amended: the alerts listed are those whose title contains "closure" or
\* "closed" or whose category contains "closure", whatever the case, in the
\* alerts' order; "closed" in the category alone does not count.
C24_CategoryCountsForClosureOnly ==
  PlanReported =>
     NamedBy("alertItem") =
        LET subset == SelectSeq(alerts, LAMBDA a :
                         MentionsClosure(a.title) \/ includes(toLowerCase(a.category), <<"c", "l", "o", "s", "u", "r", "e">>))
        IN [i \in DOMAIN subset |-> subset[i].title]

\* an alert listed for its category "Park Closure", and an alert of category
\* "Closed Area" left out
C24_Witness ==
  /\ PlanReported
  /\ \E i \in DOMAIN alerts :
        /\ ~MentionsClosure(alerts[i].title)
        /\ includes(toLowerCase(alerts[i].category), <<"c", "l", "o", "s", "u", "r", "e">>)
        /\ \E k \in DOMAIN LinesOf("alertItem") : LinesOf("alertItem")[k].v = alerts[i].title
  /\ \E i \in DOMAIN alerts :
        /\ ~MentionsClosure(alerts[i].title)
        /\ includes(toLowerCase(alerts[i].category), <<"c", "l", "o", "s", "e", "d">>)
        /\ \A k \in DOMAIN LinesOf("alertItem") : LinesOf("alertItem")[k].v # alerts[i].title


\* a report of getParkOverview, or of planParkVisit
OverviewReported == tool = "getParkOverview" /\ step = "done" /\ reply.kind = "report"
Has(kind) == LinesOf(kind) # <<>>

\* C25: a report names every empty subsource: alerts, forecast, events and
\* campgrounds in getParkOverview; alerts and forecast in planParkVisit, and
\* the forecast again under "Your Trip" when a trip window was given.
C25_EmptySubsourceIsNamed ==
  /\ OverviewReported =>
       /\ alerts = <<>> => Has("noCurrentAlerts")
       /\ forecast = <<>> => Has("forecastNotAvailable")
       /\ events = <<>> => Has("noUpcomingEvents")
       /\ campgrounds = <<>> => Has("noCampgrounds")
  /\ PlanReported =>
       /\ forecast = <<>> => Has("forecastNotAvailable")
       /\ alerts = <<>> => \E i \in DOMAIN reply.lines : reply.lines[i].k = "importantAlerts"
       /\ (forecast = <<>> /\ Has("yourTrip")) =>
             reply.lines[Len(reply.lines)].k # "yourTrip"

\* C29: a park lookup answered with an empty data list ends in the
\* could-not-find message, with no further fetch.
C29_EmptyLookupIsNotFound ==
  (step = "done" /\ Len(fetched) = 1 /\ fetched[1].ok) => reply.kind = "notFound"


\* the detail requests issued for the candidate at position i
DetailCallsFor(i) ==
  SelectSeq(calls, LAMBDA c : c.kind = "detail" /\ c.key = Num(trails[i].FacilityID))

\* C26: within one call the area search, the facility list and the fallback
\* search are each requested at most once and every candidate's detail record
\* at most once, answered or failed: at most n + 3 requests for n candidates.
C26_EveryRequestAtMostOnce ==
  /\ Len(CallsOf("areaSearch")) <= 1
  /\ Len(CallsOf("facilities")) <= 1
  /\ Len(CallsOf("fallback")) <= 1
  /\ \A i \in DOMAIN trails : Len(DetailCallsFor(i)) <= 1
  /\ Len(CallsOf("detail")) <= Len(trails)
  /\ Len(calls) <= Len(trails) + 3

\* a call that took the search path and the fallback, with two candidates of
\* which one detail request failed: n + 3 requests
C26_Witness ==
  /\ pc = "done"
  /\ Len(trails) >= 2
  /\ Len(calls) = Len(trails) + 3
  /\ FailedCallOf("detail")

\* the candidates whose detail request is awaited: the loop awaits one request
\* inside each turn
InFlight == IF pc = "detail" THEN {next} ELSE {}

\* C27: the detail requests fan out: when the loop starts on two or more
\* candidates more than one request is in flight (and never more than ten).
C27_DetailRequestsFanOut ==
  /\ (pc = "detail" /\ Len(trails) >= 2 /\ CallsOf("detail") = <<>>) => Cardinality(InFlight) >= 2
  /\ Cardinality(InFlight) <= 10

\* C28: when the resolver returned null the call is over with an empty list,
\* and neither the facility list nor the fallback search nor a detail record
\* was requested.
C28_NotFoundReturnsEmptyWithoutFetch ==
  (resolved.done /\ resolved.value = Null) =>
     /\ pc = "done"
     /\ outcome = "returned"
     /\ result = <<>>
     /\ CallsOf("facilities") = <<>>
     /\ CallsOf("fallback") = <<>>
     /\ CallsOf("detail") = <<>>

\* a park code without display name: null without any request
C28_Witness ==
  /\ resolved.done /\ resolved.value = Null
  /\ parkCode = "xxxx"
  /\ pc = "done"
  /\ calls = <<>>


\* the members of a list
Members(list) == {list[i] : i \in DOMAIN list}

\* C21: the capability list mapTrailResponse returns holds no capability twice,
\* whichever of the name-keyed flags, the id-keyed flags and the Activities
\* attribute (JSON array or comma-separated) contribute it.
C21_NoCapabilityTwice ==
  mapOut.status = "returned" =>
     \A i, j \in DOMAIN mapOut.trail.trailUse :
        i # j => mapOut.trail.trailUse[i] # mapOut.trail.trailUse[j]

\* Hiking flagged by name and by id and listed in a JSON array next to Biking:
\* each is returned once
C21_Witness ==
  /\ mapOut.status = "returned"
  /\ mapGetAttributeValue(mapIn, <<"H", "i", "k", "i", "n", "g">>) = Yes
  /\ mapGetAttributeValue(mapIn, HikingId) = Yes
  /\ mapGetAttributeValue(mapIn, Activities) = Str(<<"[", "\"", "H", "i", "k", "i", "n", "g", "\"", ",", " ", "\"", "B", "i", "k", "i", "n", "g", "\"", "]">>)
  /\ mapOut.trail.trailUse = <<Str(<<"H", "i", "k", "i", "n", "g">>), Str(<<"B", "i", "k", "i", "n", "g">>)>>

\* the Activities attribute of the trail being decoded
ActivitiesText == mapGetAttributeValue(mapIn, Activities)

\* what the flags of the trail being decoded contribute
FlagUses == Members(IdFlags(mapIn, NameFlags(mapIn)))

\* the identifier table read as a table: the name listed for id, if any
TableNames(id) ==
  {Str(activityIdMap[i].name) : i \in {k \in DOMAIN activityIdMap : activityIdMap[k].id = id.s}}

\* the capabilities an element of a JSON array resolves to
Resolutions(e) ==
  IF e.t = "string" THEN {Str(e.s)}
  ELSE IF e.t = "object"
       THEN (IF Truthy(e.name) THEN {e.name} ELSE {}) \cup TableNames(e.id)
       ELSE {}

\* the capability an element contributes first: the string, else the name,
\* else the name listed for the id
Primary(e) ==
  IF e.t = "object" /\ Truthy(e.name) THEN {e.name} ELSE Resolutions(e)

\* the trimmed non-empty comma-separated tokens of a text
Tokens(chars) ==
  {Str(trim(tok)) : tok \in {t \in Members(split(chars, 1)) : trim(t) # <<>>}}

\* C22: an Activities value that parses as JSON contributes what its array
\* elements resolve to (string, name, or id through the identifier table) and
\* no comma-separated token, whatever the elements are; a value that does not
\* parse contributes its trimmed non-empty comma-separated tokens.
C22_CommaSplitIffNotJSON ==
  (mapOut.status = "returned" /\ Truthy(ActivitiesText)) =>
     LET parsed == JSONparse(ActivitiesText.s)
         elements == Members(parsed.v.items)
         added == Members(mapOut.trail.trailUse) \ FlagUses
     IN IF parsed.ok
        THEN /\ added \subseteq UNION {Resolutions(e) : e \in elements}
             /\ \A e \in elements : Primary(e) \subseteq Members(mapOut.trail.trailUse)
        ELSE /\ added \subseteq Tokens(ActivitiesText.s)
             /\ Tokens(ActivitiesText.s) \subseteq Members(mapOut.trail.trailUse)


\* the outward calls of the callback named call
AuthCalls(call) == SelectSeq(authLog, LAMBDA c : c.call = call)

\* fetchUpstreamAuthToken resolved with [null, errorResponse]
TokenError == tokenResult.returned /\ tokenResult.err # Null

\* fetchUpstreamAuthToken resolved with [token, null]
TokenGranted == tokenResult.returned /\ tokenResult.err = Null

\* C30: completeAuthorization is invoked only after fetchUpstreamAuthToken
\* returned a non-empty access token; the pair it returns is a token without
\* error or an error without token, the error having status 500 when the
\* upstream answer is not ok and 400 when it holds no access_token; on the
\* error the callback returns that response, and neither the user is fetched
\* nor an authorization completed.
C30_AuthorizationOnlyWithToken ==
  /\ AuthCalls("completeAuthorization") # <<>> =>
       /\ TokenGranted
       /\ tokenResult.token.t = "string" /\ tokenResult.token.s # <<>>
       /\ authLog[1].call = "fetchToken"
       /\ \A i \in DOMAIN authLog :
            authLog[i].call = "completeAuthorization" => authLog[i].token = upstream.access_token
  /\ tokenResult.returned =>
       /\ (tokenResult.token = Null) # (tokenResult.err = Null)
       /\ ~upstream.ok <=> (tokenResult.err # Null /\ tokenResult.err.status = 500)
       /\ (upstream.ok /\ ~Truthy(upstream.access_token)) <=>
            (tokenResult.err # Null /\ tokenResult.err.status = 400)
  /\ TokenError =>
       /\ authPc = "done"
       /\ authReply = tokenResult.err
       /\ AuthCalls("getAuthenticated") = <<>>
       /\ AuthCalls("completeAuthorization") = <<>>

\* an authorization completed with the token the upstream granted
C30_Witness ==
  /\ authPc = "done"
  /\ authReply.kind = "redirect"
  /\ tokenResult.token = Str(<<"g", "h", "o", "_", "a">>)
  /\ Len(AuthCalls("completeAuthorization")) = 1

====
